---- MODULE Spec2Model ----
(***************************************************************************)
(* Topic-monitoring subsystem of mattermost-mcp:                           *)
(*   monitoring/persistence.py  StateManager  (processed posts, JSON file) *)
(*   monitoring/scheduler.py    MonitoringScheduler (_task_running guard)  *)
(*   monitoring/analyzer.py     MessageAnalyzer.analyze_channel            *)
(*   monitoring/monitor.py      TopicMonitor (_run_monitoring, start/stop) *)
(*   mcp/tools/monitoring.py    mattermost_run_monitoring                  *)
(*                                                                         *)
(* The process is one asyncio event loop: code between two awaits is one   *)
(* atomic step, and other coroutines (trigger fires, tool calls) interleave*)
(* only at awaits.  A write the process does not finish leaves a torn file.*)
(*                                                                         *)
(* Specifications:                                                         *)
(*   Spec       the monitor after init_monitor: trigger, run_now, stop     *)
(*   LifeSpec   a constructed TopicMonitor under any calls of start, stop  *)
(*   StoreSpec  the StateManager called directly                           *)
(*   CronSpec   _parse_cron on every short schedule string                 *)
(*   ClassifySpec  _analyze_posts_with_llm on small batches and topic lists*)
(*   UserSpec   _find_target_user on every short user listing              *)
(*   FirstRunSpec  the trigger-started runs under every MonitoringConfig   *)
(*   RestartSpec   the trigger-started runs of a process that may restart  *)
(*   ToolSpec   the monitor, or none, under the two tools and stop         *)
(*   ChannelSpec   _setup_notification_channel on short channel listings   *)
(*   EnrichSpec    _enrich_posts_with_user_info on short batches           *)
(***************************************************************************)
EXTENDS Integers, Sequences, FiniteSets, TLC

\* ------------------------------------------------------------------ bounds
MaxBatch == 2       \* longest post list one fetch returns
MaxSlots == 2       \* coroutines that may be inside _run_callback at once
MaxTorn == 1        \* longest prefix of a document a torn write leaves
MaxOrphans == 1     \* started schedulers left behind by calls of start
MaxCronLen == 11    \* longest schedule string that is parsed
MaxBodyLen == 2     \* longest message body, and longest topic, that is enumerated
MaxTopics == 2      \* longest topic list
MaxAuthored == 3    \* longest batch whose authors are looked up
MaxChannels == 3    \* longest channel listing get_channels returns
MaxUsers == 3       \* longest user listing

\* ------------------------------------------------------------ environment
\* config.channels, in configured order (channel names)
Channels == <<"alpha", "beta">>
\* the posts each channel may hold, newest first (post ids are unique platform-wide)
Timeline(c) == IF c = "c1" THEN <<"m2", "m1">> ELSE <<"m3">>
Msgs == {"m1", "m2", "m3"}
\* posts whose body contains a configured topic (case-insensitively)
KeywordHit == {"m1", "m3"}
\* id a language model may name although it is not in the batch
ForeignId == "zz"

Slots == 1..MaxSlots
Brackets == {"{", "}", "[", "]"}

\* ------------------------------------------------------- sequence helpers
Range(q) == {q[i] : i \in 1..Len(q)}

\* the subsequences of q; those of at most n elements
RECURSIVE SubSeqs(_)
SubSeqs(q) ==
    IF q = <<>> THEN {<<>>}
    ELSE LET rest == SubSeqs(Tail(q))
         IN  rest \cup {<<Head(q)>> \o r : r \in rest}
SubSeqsUpTo(q, n) == {r \in SubSeqs(q) : Len(r) <= n}

Prefix(q, n) == [i \in 1..n |-> q[i]]

Min(a, b) == IF a < b THEN a ELSE b

NoDupSeq(q) == \A i, j \in 1..Len(q) : q[i] = q[j] => i = j

\* ------------------------------------- processed_posts: dict[str, list[str]]
\* A Python dict keeps insertion order: a sequence of entries with unique keys.
EmptyDict == <<>>

DictHas(d, key) == \E i \in 1..Len(d) : d[i].k = key

\* dict.get(key, [])
DictGet(d, key) ==
    IF DictHas(d, key) THEN d[CHOOSE i \in 1..Len(d) : d[i].k = key].v ELSE <<>>

\* d[key] = val: a present key keeps its position
DictPut(d, key, val) ==
    IF DictHas(d, key)
    THEN [i \in 1..Len(d) |-> IF d[i].k = key THEN [k |-> key, v |-> val] ELSE d[i]]
    ELSE Append(d, [k |-> key, v |-> val])

\* the (channel, post) pairs a dict holds
Pairs(d) == UNION {{<<d[i].k, x>> : x \in Range(d[i].v)} : i \in 1..Len(d)}

\* --------------------------------------------------------- the state file
\* The file is absent, or holds a sequence of JSON tokens.  A document
\*   {"processed_posts": {"c": ["m", ...], ...}}
\* is written  {  c [ m ... ]  ...  }  (one token per bracket and per string).
NoFile == [exists |-> FALSE, data |-> <<>>]
FileOf(tokens) == [exists |-> TRUE, data |-> tokens]

RECURSIVE DumpEntries(_)
DumpEntries(d) ==
    IF d = <<>> THEN <<>>
    ELSE <<Head(d).k, "[">> \o Head(d).v \o <<"]">> \o DumpEntries(Tail(d))

\* MonitorState.model_dump_json
model_dump_json(d) == <<"{">> \o DumpEntries(d) \o <<"}">>

\* A JSON array of strings starting at token i: its items and the index after "]".
RECURSIVE ParseListPrepends(_, _, _)
ParseListPrepends(t, i, acc) ==
    IF i > Len(t) THEN [err |-> "json", v |-> <<>>, next |-> i]
    ELSE IF t[i] = "]" THEN [err |-> "none", v |-> acc, next |-> i + 1]
    ELSE IF t[i] \in Brackets THEN [err |-> "json", v |-> <<>>, next |-> i]
    ELSE ParseListPrepends(t, i + 1, <<t[i]>> \o acc)
RECURSIVE ParseList(_, _, _)
ParseList(t, i, acc) ==
    IF i > Len(t) THEN [err |-> "json", v |-> <<>>, next |-> i]
    ELSE IF t[i] = "]" THEN [err |-> "none", v |-> acc, next |-> i + 1]
    ELSE IF t[i] \in Brackets THEN [err |-> "json", v |-> <<>>, next |-> i]
    ELSE ParseList(t, i + 1, Append(acc, t[i]))

\* The members of the object from token i on.  A member whose value is a string is
\* valid JSON that does not fit dict[str, list[str]].
RECURSIVE ParseMembers(_, _, _, _)
ParseMembers(t, i, acc, fits) ==
    IF i > Len(t) THEN [err |-> "json", v |-> EmptyDict]
    ELSE IF t[i] = "}"
         THEN IF i # Len(t) THEN [err |-> "json", v |-> EmptyDict]
              ELSE IF fits THEN [err |-> "none", v |-> acc]
              ELSE [err |-> "schema", v |-> EmptyDict]
    ELSE IF t[i] \in Brackets \/ i = Len(t) THEN [err |-> "json", v |-> EmptyDict]
    ELSE IF t[i + 1] = "["
         THEN LET l == ParseList(t, i + 2, <<>>)
              IN  IF l.err # "none" THEN [err |-> "json", v |-> EmptyDict]
                  ELSE ParseMembers(t, l.next, DictPut(acc, t[i], l.v), fits)
    ELSE IF t[i + 1] \in Brackets THEN [err |-> "json", v |-> EmptyDict]
    ELSE ParseMembers(t, i + 2, acc, FALSE)

\* json.loads followed by MonitorState(**data): err is "none", "json"
\* (JSONDecodeError) or "schema" (TypeError / ValidationError).
ParseDocument(t) ==
    IF t = <<>> THEN [err |-> "json", v |-> EmptyDict]
    ELSE IF t[1] = "{" THEN ParseMembers(t, 2, EmptyDict, TRUE)
    ELSE IF t[1] = "["
         THEN LET l == ParseList(t, 2, <<>>)
              IN  IF l.err = "none" /\ l.next = Len(t) + 1
                  THEN [err |-> "schema", v |-> EmptyDict]
                  ELSE [err |-> "json", v |-> EmptyDict]
    ELSE IF Len(t) = 1 /\ t[1] \notin Brackets THEN [err |-> "schema", v |-> EmptyDict]
    ELSE [err |-> "json", v |-> EmptyDict]

\* The exceptions _load_state catches: `except Exception` takes every one.
LoadCatchesJsonOnly(err) == err = "json"
LoadCatches(err) == err \in {"json", "schema"}

\* StateManager._load_state: [raised, posts]
_load_state(f) ==
    IF ~f.exists THEN [raised |-> FALSE, posts |-> EmptyDict]
    ELSE LET r == ParseDocument(f.data)
         IN  IF r.err = "none" THEN [raised |-> FALSE, posts |-> r.v]
             ELSE IF LoadCatches(r.err) THEN [raised |-> FALSE, posts |-> EmptyDict]
             ELSE [raised |-> TRUE, posts |-> EmptyDict]

\* StateManager.is_post_processed
IsProcessedInAnyChannel(d, c, p) == \E i \in 1..Len(d) : p \in Range(d[i].v)
is_post_processed(d, c, p) == p \in Range(DictGet(d, c))

\* StateManager.get_processed_post_ids
get_processed_post_ids(d, c) == DictGet(d, c)

\* StateManager.mark_post_processed
MarkAlwaysAppends(d, c, p) == DictPut(d, c, Append(DictGet(d, c), p))
mark_post_processed(d, c, p) ==
    LET d1 == IF ~DictHas(d, c) THEN DictPut(d, c, <<>>) ELSE d
    IN  IF ~is_post_processed(d1, c, p)
        THEN DictPut(d1, c, Append(DictGet(d1, c), p))
        ELSE d1

\* The loop `for post in unprocessed_posts: mark_post_processed(channel.id, post.id)`
RECURSIVE MarkAll(_, _, _)
MarkAll(d, c, posts) ==
    IF posts = <<>> THEN d
    ELSE MarkAll(mark_post_processed(d, c, Head(posts)), c, Tail(posts))

\* Path.write_text opens the file with mode "w", which truncates it, and then writes.
\* A save ends in one of:
\*   "ok"      the whole document is written
\*   "noopen"  mkdir or open raised: the file is as it was
\*   "torn"    the write raised (or the process died) after the truncation: the
\*             file holds a strict prefix of the document, possibly nothing
\*             (every strict prefix fails to parse; prefixes up to MaxTorn tokens
\*             are explored)
SaveOutcomes == {"ok", "noopen", "torn"}

write_text(old, doc, how) ==
    IF how = "ok" THEN {FileOf(doc)}
    ELSE IF how = "noopen" THEN {old}
    ELSE {FileOf(Prefix(doc, n)) : n \in 0..Min(MaxTorn, Len(doc) - 1)}

\* StateManager.save_state: the files it may leave.  Every exception is caught.
save_state(old, d, how) == write_text(old, model_dump_json(d), how)

\* Whether an exception of save_state reaches analyze_channel: `except Exception`
\* in save_state means never.
SaveRaisesOnFailure(how) == how # "ok"
SaveRaises(how) == FALSE

\* ------------------------------------------------------------- classifier
\* channel.id of a channel name
ChannelId(name) == IF name = "alpha" THEN "c1" ELSE "c2"
ChannelIds == {ChannelId(Channels[i]) : i \in 1..Len(Channels)}

\* first occurrences only: `if post not in relevant_posts`
RECURSIVE Dedupe(_, _)
Dedupe(q, acc) ==
    IF q = <<>> THEN acc
    ELSE Dedupe(Tail(q), IF Head(q) \in Range(acc) THEN acc ELSE Append(acc, Head(q)))

\* MessageAnalyzer._fallback_analysis: the posts whose body contains a topic
_fallback_analysis(posts) == Dedupe(SelectSeq(posts, LAMBDA m : m \in KeywordHit), <<>>)

\* What one classification call may do: fall back (no key, API error, no JSON in
\* the answer, invalid JSON), or parse an answer naming the ids `ids`.
ClassifierOutcomes ==
    {[kind |-> "fallback", ids |-> {}]}
        \cup {[kind |-> "llm", ids |-> S] : S \in SUBSET (Msgs \cup {ForeignId})}

\* MessageAnalyzer._analyze_posts_with_llm: relevant_posts
_analyze_posts_with_llm(posts, cls) ==
    IF cls.kind = "fallback" THEN _fallback_analysis(posts)
    ELSE SelectSeq(posts, LAMBDA m : m \in cls.ids)

\* _run_monitoring, line 171: is_first_run, computed at the start of every run
is_first_run(cfg) == ~cfg.process_existing_on_first_run

\* analyze_channel, line 92: the limit of the post listing
FetchLimit(cfg) ==
    IF is_first_run(cfg) /\ cfg.first_run_limit # 0
    THEN cfg.first_run_limit ELSE cfg.message_limit

\* posts_response.order of a fetch: at most `limit` posts of the channel, newest
\* first, none twice
PostOrders(c, limit) == SubSeqsUpTo(Timeline(c), limit)

\* The filter of analyze_channel: posts of the fetched order not yet processed
FilterNone(d, c, order) == order
FilterUnprocessed(d, c, order) ==
    SelectSeq(order, LAMBDA m : m \notin Range(get_processed_post_ids(d, c)))

\* What analyze_channel returns for the relevant posts of channel c, lines 118-127:
\* <<>> for None, <<r>> for the AnalysisResult r
ResultAlways(c, relevant) == <<[ch |-> c, posts |-> relevant]>>
ResultOf(c, relevant) ==
    IF relevant = <<>> THEN <<>> ELSE <<[ch |-> c, posts |-> relevant]>>

\* The posts analyze_channel marks after classifying
MarkRelevantOnly(unprocessed, relevant) == relevant
PostsToMark(unprocessed, relevant) == unprocessed

\* ------------------------------------------- the classifier, with the texts
\* Above, a post is its id and the classifier selects ids.  Here a post has a
\* body, the analyzer has topics, and the language model answers with a text.
\* Bodies and topics are strings over Letters.
Letters == {"a", "A", "b"}

\* str.lower()
LowerKeepsCase(ch) == ch
LowerChar(ch) == IF ch = "A" THEN "a" ELSE ch
Lower(str) == [i \in 1..Len(str) |-> LowerChar(str[i])]

\* Python's `needle in hay` for strings: a contiguous occurrence
Contains(hay, needle) ==
    \E i \in 0..(Len(hay) - Len(needle)) : SubSeq(hay, i + 1, i + Len(needle)) = needle

RECURSIVE WordsOfLen(_)
WordsOfLen(n) ==
    IF n = 0 THEN {<<>>}
    ELSE {Append(w, ch) : w \in WordsOfLen(n - 1), ch \in Letters}
WordsUpTo(n) == UNION {WordsOfLen(k) : k \in 0..n}

\* LlmAnalysisResult
LlmAnalysisResult(posts, ts, pt) ==
    [relevant_posts |-> posts, relevant_topics |-> ts, post_topics |-> pt]
EmptyResult == LlmAnalysisResult(<<>>, {}, EmptyDict)

\* MessageAnalyzer._fallback_analysis, lines 293-302: the inner loop over the
\* topics for one post
RECURSIVE FallbackTopics(_, _, _)
FallbackTopics(acc, post, ts) ==
    IF ts = <<>> THEN acc
    ELSE LET topic == Head(ts)
             hit == Contains(Lower(post.message), Lower(topic))
             next ==
                 IF ~hit THEN acc
                 ELSE LlmAnalysisResult(
                        IF post \in Range(acc.relevant_posts) THEN acc.relevant_posts
                        ELSE Append(acc.relevant_posts, post),
                        acc.relevant_topics \cup {topic},
                        DictPut(acc.post_topics, post.id,
                                Append(DictGet(acc.post_topics, post.id), topic)))
         IN  FallbackTopics(next, post, Tail(ts))

\* lines 290-308: the outer loop over the posts
RECURSIVE FallbackPosts(_, _, _)
FallbackPosts(acc, posts, ts) ==
    IF posts = <<>> THEN acc
    ELSE FallbackPosts(FallbackTopics(acc, Head(posts), ts), Tail(posts), ts)

\* MessageAnalyzer._fallback_analysis on posts with bodies
FallbackAnalysis(ts, posts) == FallbackPosts(EmptyResult, posts, ts)

\* The text of an answer is a sequence of tokens: brackets, JSON strings, and
\* Prose for anything that is no JSON (words around or inside the object).
Prose == "w"

\* re.search(r"\{[\s\S]*\}", content): from the first "{" to the last "}", or
\* no match
JsonMatch(t) ==
    LET opens == {i \in 1..Len(t) : t[i] = "{"}
        closes == {i \in 1..Len(t) : t[i] = "}"}
    IN  IF opens = {} \/ closes = {} THEN [found |-> FALSE, text |-> <<>>]
        ELSE LET i == CHOOSE k \in opens : \A h \in opens : k <= h
                 j == CHOOSE k \in closes : \A h \in closes : k >= h
             IN  IF i < j THEN [found |-> TRUE, text |-> SubSeq(t, i, j)]
                 ELSE [found |-> FALSE, text |-> <<>>]

\* JSON values: a string, a list of values, an object of members in order
JStr(x) == [t |-> "str", s |-> x, m |-> <<>>]
JList(items) == [t |-> "list", s |-> "", m |-> items]
JObj(members) == [t |-> "obj", s |-> "", m |-> members]
JFail(i) == [err |-> TRUE, v |-> JStr(""), next |-> i]

\* json.loads on tokens: the value that starts at token i and the index after it
RECURSIVE JsonValue(_, _), JsonArray(_, _, _), JsonObject(_, _, _)
JsonValue(t, i) ==
    IF i > Len(t) THEN JFail(i)
    ELSE IF t[i] = "{" THEN JsonObject(t, i + 1, <<>>)
    ELSE IF t[i] = "[" THEN JsonArray(t, i + 1, <<>>)
    ELSE IF t[i] \in Brackets \/ t[i] = Prose THEN JFail(i)
    ELSE [err |-> FALSE, v |-> JStr(t[i]), next |-> i + 1]
JsonArray(t, i, acc) ==
    IF i > Len(t) THEN JFail(i)
    ELSE IF t[i] = "]" THEN [err |-> FALSE, v |-> JList(acc), next |-> i + 1]
    ELSE LET item == JsonValue(t, i)
         IN  IF item.err THEN JFail(i) ELSE JsonArray(t, item.next, Append(acc, item.v))
JsonObject(t, i, acc) ==
    IF i > Len(t) THEN JFail(i)
    ELSE IF t[i] = "}" THEN [err |-> FALSE, v |-> JObj(acc), next |-> i + 1]
    ELSE IF t[i] \in Brackets \/ t[i] = Prose THEN JFail(i)
    ELSE LET val == JsonValue(t, i + 1)
         IN  IF val.err THEN JFail(i)
             ELSE JsonObject(t, val.next, DictPut(acc, t[i], val.v))

\* json.loads(text): JSONDecodeError unless the whole text is one value
json_loads(t) ==
    LET r == JsonValue(t, 1)
    IN  IF r.err \/ r.next # Len(t) + 1 THEN [err |-> TRUE, v |-> JStr("")]
        ELSE [err |-> FALSE, v |-> r.v]

\* lines 250-254: the loop over the ids the answer lists under one topic.  An id
\* that is no string (a list, an object) cannot be put into a set: TypeError.
RECURSIVE CollectIds(_, _, _)
CollectIds(acc, topic, ids) ==
    IF ids = <<>> \/ acc.raised THEN acc
    ELSE LET pid == Head(ids)
         IN  IF pid.t # "str" THEN [acc EXCEPT !.raised = TRUE]
             ELSE CollectIds(
                    [raised |-> FALSE,
                     ids |-> acc.ids \cup {pid.s},
                     topics |-> acc.topics,
                     post_topics |-> DictPut(acc.post_topics, pid.s,
                                             Append(DictGet(acc.post_topics, pid.s), topic))],
                    topic, Tail(ids))

\* lines 247-254: the loop over the members of "topics"; a member whose value is
\* no list, or an empty one, is passed over
RECURSIVE CollectTopics(_, _)
CollectTopics(acc, members) ==
    IF members = <<>> \/ acc.raised THEN acc
    ELSE LET topic == Head(members).k
             post_ids == Head(members).v
         IN  IF post_ids.t = "list" /\ post_ids.m # <<>>
             THEN CollectTopics(
                    CollectIds([acc EXCEPT !.topics = @ \cup {topic}], topic, post_ids.m),
                    Tail(members))
             ELSE CollectTopics(acc, Tail(members))

\* lines 241-269: the result read from the parsed answer.  result.get("topics", {})
\* is an empty dict when the key is missing; a value that is no object has no
\* items(): AttributeError.
TopicsRaises(obj) == DictHas(obj.m, "topics") /\ DictGet(obj.m, "topics").t # "obj"
ReadAnswer(obj, posts) ==
    LET topics_data == IF DictHas(obj.m, "topics") THEN DictGet(obj.m, "topics").m ELSE <<>>
        c == CollectTopics([raised |-> FALSE, ids |-> {}, topics |-> {},
                            post_topics |-> EmptyDict], topics_data)
    IN  [raised |-> c.raised,
         result |-> LlmAnalysisResult(SelectSeq(posts, LAMBDA p : p.id \in c.ids),
                                      c.topics, c.post_topics)]

\* What anthropic.messages.create may do: raise (an API-level error), return no
\* content block, or return a text
AnswerError == [kind |-> "error", text |-> <<>>]
AnswerNoContent == [kind |-> "nocontent", text |-> <<>>]
AnswerText(t) == [kind |-> "text", text |-> t]

\* line 179: the cases in which no request is made
FallbackOnlyWithoutPosts(llm, posts) == posts = <<>>
UsesFallback(llm, posts) == ~llm.configured \/ llm.api_key = "" \/ posts = <<>>

\* MessageAnalyzer._analyze_posts_with_llm on posts with bodies: the result, and
\* whether a request was sent to the language model
AnalyzePostsWithLlm(llm, ts, posts, answer) ==
    IF UsesFallback(llm, posts)
    THEN [result |-> FallbackAnalysis(ts, posts), remote |-> FALSE]
    ELSE LET content == IF answer.kind = "nocontent" THEN <<"{", "}">> ELSE answer.text
             json_match == JsonMatch(content)
             parsed == json_loads(json_match.text)
             read == ReadAnswer(parsed.v, posts)
             falls ==
                 \/ answer.kind = "error"
                 \/ ~json_match.found
                 \/ parsed.err
                 \/ TopicsRaises(parsed.v)
                 \/ read.raised
         IN  [result |-> IF falls THEN FallbackAnalysis(ts, posts) ELSE read.result,
              remote |-> TRUE]

\* ------------------------------------------------------------------- cron
\* config.schedule is a string: a sequence of characters.  Whitespace, and the
\* characters of a field.
Whitespace == {" "}
CronChars == Whitespace \cup {"*"}

\* All strings of exactly n characters, and of at most n
RECURSIVE StringsOfLen(_)
StringsOfLen(n) ==
    IF n = 0 THEN {<<>>}
    ELSE {Append(w, ch) : w \in StringsOfLen(n - 1), ch \in CronChars}
StringsUpTo(n) == UNION {StringsOfLen(k) : k \in 0..n}

\* str.strip(): without leading and trailing whitespace
RECURSIVE LStrip(_)
LStrip(str) ==
    IF str # <<>> /\ Head(str) \in Whitespace THEN LStrip(Tail(str)) ELSE str
RECURSIVE RStrip(_)
RStrip(str) ==
    IF str # <<>> /\ str[Len(str)] \in Whitespace
    THEN RStrip(SubSeq(str, 1, Len(str) - 1)) ELSE str
Strip(str) == LStrip(RStrip(str))

\* str.split() without arguments: the maximal runs of non-whitespace characters, in
\* order; `cur` is the run being read, `acc` the runs that are complete
RECURSIVE Split(_, _, _)
Split(str, cur, acc) ==
    IF str = <<>> THEN (IF cur = <<>> THEN acc ELSE Append(acc, cur))
    ELSE IF Head(str) \in Whitespace
         THEN Split(Tail(str), <<>>, IF cur = <<>> THEN acc ELSE Append(acc, cur))
    ELSE Split(Tail(str), Append(cur, Head(str)), acc)

\* MonitoringScheduler._parse_cron: raises ValueError, or returns the trigger
\* arguments
ParseCronAtLeastFive(schedule) ==
    LET parts == Split(Strip(schedule), <<>>, <<>>)
    IN  IF Len(parts) < 5 THEN [raised |-> TRUE, args |-> <<>>]
        ELSE [raised |-> FALSE,
              args |-> [minute |-> parts[1], hour |-> parts[2], day |-> parts[3],
                        month |-> parts[4], day_of_week |-> parts[5]]]
_parse_cron(schedule) ==
    LET parts == Split(Strip(schedule), <<>>, <<>>)
    IN  IF Len(parts) # 5 THEN [raised |-> TRUE, args |-> <<>>]
        ELSE [raised |-> FALSE,
              args |-> [minute |-> parts[1], hour |-> parts[2], day |-> parts[3],
                        month |-> parts[4], day_of_week |-> parts[5]]]

\* CronTrigger(**cron_args) raises ValueError for a field that is no cron
\* expression; of the fields over CronChars only "*" is one.
CronTriggerAccepts(args) ==
    \A f \in {args.minute, args.hour, args.day, args.month, args.day_of_week} :
        f = <<"*">>

\* MonitoringScheduler.start, lines 78-92: TRUE when the trigger is built, the job
\* added and the scheduler started; FALSE when `except Exception` returns False.
StartsAnyway(schedule) == TRUE
SchedulerStarts(schedule) ==
    LET r == _parse_cron(schedule)
    IN  ~r.raised /\ CronTriggerAccepts(r.args)

\* config.schedule: five fields; one field ("invalid"); five fields of which one
\* is no cron expression
GoodCron == <<"*", " ", "*", " ", "*", " ", "*", " ", "*">>
Schedules == {GoodCron, <<"*">>, <<"*", " ", "*", "*", " ", "*", " ", "*", " ", "*">>}

\* ------------------------------------------------------------------ state
VARIABLES
    file,           \* the state file at config.state_path
    monitor,        \* monitor._monitor: "up", or "none" (never constructed)
    processed,      \* StateManager._state.processed_posts
    task_running,   \* MonitoringScheduler._task_running
    sched,          \* MonitoringScheduler._scheduler is a started scheduler: its
                    \* recurring trigger is registered (is_scheduler_running)
    notif,          \* TopicMonitor._notification_channel_id is set
    pc,             \* per coroutine inside _run_callback: where it is suspended
    src,            \* what invoked it: "trigger", "stray" or "run_now"
    idx,            \* index into config.channels of the channel being analyzed
    batch,          \* unprocessed_posts of the analyze_channel call in progress
    results,        \* results of _run_monitoring not yet notified
    ev,             \* the last step taken and what it did
    everClassified, \* per channel: ids handed to the classifier by this process
    everNotified,   \* per channel: ids counted in a notification that was posted
    persisted,      \* (channel, id) pairs a complete document in the file has held
    schedule,       \* config.schedule
    startpc,        \* where the coroutine TopicMonitor.start is suspended
    unstarted,      \* MonitoringScheduler._scheduler is a scheduler never started
    orphans,        \* started schedulers that MonitoringScheduler no longer refers to
    stopped,        \* stop has returned and start was not called since
    firstRun,       \* the first invocation of _run_monitoring by this process:
                    \* not begun, running as coroutine `slot`, or over
    config,         \* MonitoringConfig: process_existing_on_first_run and the limits
    args,           \* the arguments of the call under test, where a function is
                    \* called on its own
    ended           \* how the invocation of _run_callback that ended in the last
                    \* step ended: "returned", "raised", "cancelled"; "-" if none did

vars == <<file, monitor, processed, task_running, sched, notif, pc, src, idx, batch,
          results, ev, everClassified, everNotified, persisted, schedule, startpc,
          unstarted, orphans, stopped, ended, firstRun, config, args>>

runVars == <<pc, src, idx, batch, results>>
histVars == <<everClassified, everNotified, persisted>>
ghostVars == <<histVars, firstRun>>
\* what no step changes: the configuration and the arguments
fixedVars == <<schedule, config, args>>
lifeVars == <<fixedVars, startpc, unstarted, orphans>>

\* ev: the operation of the last step, how it ended (the outcome of its save or
\* post, the value a start or stop returned, who invoked _run_callback), the
\* channel it was about (for a start: the condition that ended it), and the posts
\* it was about (for a parse: the trigger arguments)
Event(op, how, ch, posts) == [op |-> op, how |-> how, ch |-> ch, posts |-> posts]
PlainEvent(op) == Event(op, "-", "-", <<>>)
\* the post listing answered a request for at most `limit` posts
FetchEvent(op, how, ch, limit) ==
    [op |-> op, how |-> how, ch |-> ch, posts |-> <<>>, limit |-> limit]

\* MonitoringConfig as far as a run reads it.  In BaseConfig both limits let a
\* fetch return MaxBatch posts.
Config(pe, frl, ml) ==
    [process_existing_on_first_run |-> pe, first_run_limit |-> frl, message_limit |-> ml]
BaseConfig == Config(FALSE, MaxBatch, MaxBatch)
NoArgs == <<>>

\* Files found at start-up: none; a document this program wrote; a torn document
\* (invalid JSON); JSON documents of another shape.
InitialFiles ==
    {NoFile,
     FileOf(model_dump_json(<<[k |-> "c1", v |-> <<"m1">>]>>)),
     FileOf(<<"{", "c1", "[">>),
     FileOf(<<"{", "c1", "m1", "}">>)}

\* The outcomes of TopicMonitor.start: the trigger is registered; no user found;
\* no notification channel found; the cron expression is malformed.
StartOutcomes == {"ok", "no_users", "no_channel", "bad_cron"}

\* What main.app_lifespan's init_monitor leaves in memory, given the file f and the
\* outcome o of start.  An exception of the constructor leaves _monitor unset.
BootState(f, o) ==
    LET l == _load_state(f)
    IN  [monitor |-> IF l.raised THEN "none" ELSE "up",
         processed |-> l.posts,
         sched |-> (~l.raised /\ o = "ok"),
         notif |-> (~l.raised /\ o \in {"ok", "bad_cron"}),
         unstarted |-> (~l.raised /\ o = "bad_cron")]

\* The values of firstRun
FirstRunAhead == [state |-> "none", slot |-> 0]
FirstRunIn(s) == [state |-> "running", slot |-> s]
FirstRunOver == [state |-> "done", slot |-> 0]
IsFirstRun(s) == firstRun = FirstRunIn(s)

IdleRun ==
    [pc |-> [s \in Slots |-> "idle"], src |-> [s \in Slots |-> "-"],
     idx |-> [s \in Slots |-> 0], batch |-> [s \in Slots |-> <<>>],
     results |-> [s \in Slots |-> <<>>]]

\* The part of the initial state that is the same wherever the process starts
InitRest(f) ==
    /\ file = f
    /\ task_running = FALSE
    /\ pc = IdleRun.pc /\ src = IdleRun.src /\ idx = IdleRun.idx
    /\ batch = IdleRun.batch /\ results = IdleRun.results
    /\ everClassified = [c \in ChannelIds |-> {}]
    /\ everNotified = [c \in ChannelIds |-> {}]
    /\ persisted = Pairs(ParseDocument(f.data).v)
    /\ startpc = "idle"
    /\ orphans = 0
    /\ stopped = FALSE
    /\ ended = "-"
    /\ firstRun = FirstRunAhead

Init ==
    \E f \in InitialFiles, o \in StartOutcomes :
        /\ InitRest(f)
        /\ monitor = BootState(f, o).monitor
        /\ processed = BootState(f, o).processed
        /\ sched = BootState(f, o).sched
        /\ notif = BootState(f, o).notif
        /\ unstarted = BootState(f, o).unstarted
        /\ schedule \in {sch \in Schedules : SchedulerStarts(sch) <=> o # "bad_cron"}
        /\ config = BaseConfig /\ args = NoArgs
        /\ ev = PlainEvent("boot")

Running(s) == pc[s] # "idle"

\* ------------------------------------------------------------- scheduler
\* MonitoringScheduler._run_callback, line 54: the guard
BusyNever == FALSE
Busy == task_running

\* The flag after a skipped invocation: the early return is outside the try
\* statement, so the finally clause does not run.
FlagClearedOnSkip == FALSE
FlagAfterSkip == task_running

\* The run ends: _run_monitoring returns and the finally clause clears the flag.
FlagKeptAfterRun(s) == task_running
FlagAfterRun(s) == FALSE

\* Whether an exception raised at `where` inside a run ("listing", "fetching",
\* "notifying") leaves _run_callback: the handlers `except Exception` of
\* _run_monitoring and of _run_callback stand in its way.
PropagatesFromNotify(where) == where = "notifying"
Propagates(where) == FALSE

\* Whether an exception raised at `where` ends the loops of _run_monitoring:
\* analyze_channel and _send_notification each catch Exception themselves.
AbortsOnFetchError(where) == where = "fetching"
AbortsOnNotifyError(where) == where = "notifying"
AbortsRun(where) == FALSE

\* A run in which the operation at `where` raised: whether it ends there, and how
FailureEnds(where) == Propagates(where) \/ AbortsRun(where)
EndOf(where) == IF Propagates(where) THEN "raised" ELSE "returned"

\* The first run is over when the coroutine s that ran it is back to idle.
TrackFirstRun(s) ==
    firstRun' = IF IsFirstRun(s) /\ pc'[s] = "idle" THEN FirstRunOver ELSE firstRun

\* _run_callback invoked by `from`.  Nothing is awaited between the test of the
\* flag and its assignment.  A run that starts is suspended at the first await of
\* analyze_channel, the channel listing.
_run_callback(from) ==
    IF Busy
    THEN /\ ev' = Event("skip", from, "-", <<>>)
         /\ task_running' = FlagAfterSkip
         /\ ended' = "returned"
         /\ UNCHANGED <<file, monitor, processed, sched, notif, runVars, ghostVars,
                        lifeVars, stopped>>
    ELSE /\ \E s \in Slots :
            /\ pc[s] = "idle"
            /\ \A r \in Slots : r < s => pc[r] # "idle"
            /\ firstRun' = IF firstRun = FirstRunAhead THEN FirstRunIn(s) ELSE firstRun
            /\ pc' = [pc EXCEPT ![s] = "listing"]
            /\ src' = [src EXCEPT ![s] = from]
            /\ idx' = [idx EXCEPT ![s] = 1]
            /\ batch' = [batch EXCEPT ![s] = <<>>]
            /\ results' = [results EXCEPT ![s] = <<>>]
         /\ task_running' = TRUE
         /\ ev' = Event("enter", from, "-", <<>>)
         /\ ended' = "-"
         /\ UNCHANGED <<file, monitor, processed, sched, notif, histVars, lifeVars,
                        stopped>>

\* The schedulers whose recurring trigger is registered: the one
\* MonitoringScheduler refers to ("trigger") and those it has lost ("stray")
Registered ==
    (IF sched THEN {"trigger"} ELSE {}) \cup (IF orphans > 0 THEN {"stray"} ELSE {})

\* The cron trigger of a started scheduler fires: its executor calls _run_callback.
TriggerFires ==
    /\ monitor = "up"
    /\ \E from \in Registered : _run_callback(from)

\* The tool mattermost_run_monitoring: monitor.run_now() when a monitor exists.
RunNow ==
    /\ monitor = "up"
    /\ _run_callback("run_now")

\* AsyncIOScheduler.shutdown (APScheduler 3) raises when the scheduler was never
\* started; MonitoringScheduler.stop catches it and returns False, and
\* self._scheduler stays.
ShutdownRaises == unstarted

\* The shutdown of a started scheduler shuts its AsyncIOExecutor down, which cancels
\* the futures of the jobs it submitted and that are not done: the invocations of
\* _run_callback its trigger started and that are suspended at an await.
CancelsEvery(s) == Running(s)
Cancels(s) == sched /\ src[s] = "trigger" /\ Running(s)

\* TopicMonitor.stop -> MonitoringScheduler.stop
Stop ==
    /\ monitor = "up"
    /\ sched' = FALSE
    /\ pc' = [s \in Slots |-> IF Cancels(s) THEN "cancelled" ELSE pc[s]]
    /\ ev' = Event("stop", IF ShutdownRaises THEN "false" ELSE "true", "-", <<>>)
    /\ stopped' = TRUE
    /\ ended' = "-"
    /\ UNCHANGED <<file, monitor, processed, task_running, notif, src, idx, batch,
                   results, ghostVars, lifeVars>>

\* A cancelled invocation is resumed with CancelledError, which no handler
\* `except Exception` catches: the finally clause of _run_callback clears the flag
\* and the error leaves _run_callback.
Unwind(s) ==
    /\ pc[s] = "cancelled"
    /\ pc' = [pc EXCEPT ![s] = "idle"]
    /\ src' = [src EXCEPT ![s] = "-"]
    /\ idx' = [idx EXCEPT ![s] = 0]
    /\ batch' = [batch EXCEPT ![s] = <<>>]
    /\ results' = [results EXCEPT ![s] = <<>>]
    /\ task_running' = FALSE
    /\ ended' = "cancelled"
    /\ ev' = PlainEvent("unwind")
    /\ TrackFirstRun(s)
    /\ UNCHANGED <<file, monitor, processed, sched, notif, histVars, lifeVars,
                   stopped>>

\* ---------------------------------------------------------- the run itself
\* The invocation of coroutine s ends: _run_monitoring is left, the finally clause
\* of _run_callback clears the flag.
EndRun(s, how) ==
    /\ pc' = [pc EXCEPT ![s] = "idle"]
    /\ src' = [src EXCEPT ![s] = "-"]
    /\ idx' = [idx EXCEPT ![s] = 0]
    /\ batch' = [batch EXCEPT ![s] = <<>>]
    /\ results' = [results EXCEPT ![s] = <<>>]
    /\ task_running' = FlagAfterRun(s)
    /\ ended' = how

\* analyze_channel of coroutine s returned `res` (<<>> for None, <<r>> for a result):
\* the loop of _run_monitoring goes on to the next channel, then to the
\* notifications, then the run ends.
AfterAnalyze(s, res) ==
    LET all == results[s] \o res
    IN  IF idx[s] < Len(Channels)
        THEN /\ pc' = [pc EXCEPT ![s] = "listing"]
             /\ idx' = [idx EXCEPT ![s] = idx[s] + 1]
             /\ results' = [results EXCEPT ![s] = all]
             /\ batch' = [batch EXCEPT ![s] = <<>>]
             /\ ended' = "-"
             /\ UNCHANGED <<src, task_running>>
        ELSE IF all # <<>>
        THEN /\ pc' = [pc EXCEPT ![s] = "notifying"]
             /\ results' = [results EXCEPT ![s] = all]
             /\ batch' = [batch EXCEPT ![s] = <<>>]
             /\ ended' = "-"
             /\ UNCHANGED <<src, idx, task_running>>
        ELSE EndRun(s, "returned")

\* analyze_channel, lines 84-89: the channel listing answers.
ListChannels(s) ==
    /\ pc[s] = "listing"
    /\ \E answer \in {"error", "absent", "found"} :
        IF answer = "found"
        THEN /\ pc' = [pc EXCEPT ![s] = "fetching"]
             /\ ev' = PlainEvent("listed")
             /\ ended' = "-"
             /\ UNCHANGED <<src, idx, batch, results, task_running>>
        ELSE IF answer = "error" /\ FailureEnds("listing")
        THEN /\ EndRun(s, EndOf("listing"))
             /\ ev' = Event("early", "error", ChannelId(Channels[idx[s]]), <<>>)
        ELSE /\ AfterAnalyze(s, <<>>)
             /\ ev' = Event("early", answer, ChannelId(Channels[idx[s]]), <<>>)
    /\ TrackFirstRun(s)
    /\ UNCHANGED <<file, monitor, processed, sched, notif, histVars, lifeVars, stopped>>

\* analyze_channel, lines 103-105: with no unprocessed post the call returns None
ExitsEarlyNever(unprocessed_posts) == FALSE
ExitsEarly(unprocessed_posts) == unprocessed_posts = <<>>

\* analyze_channel, lines 92-105: the post listing answers; the filter.
FetchPosts(s) ==
    /\ pc[s] = "fetching"
    /\ LET c == ChannelId(Channels[idx[s]])
           limit == FetchLimit(config)
       IN  \/ /\ IF FailureEnds("fetching")
                 THEN EndRun(s, EndOf("fetching"))
                 ELSE AfterAnalyze(s, <<>>)
              /\ ev' = Event("early", "error", c, <<>>)
           \/ \E order \in PostOrders(c, limit) :
                LET unprocessed_posts == FilterUnprocessed(processed, c, order)
                IN  IF ExitsEarly(unprocessed_posts)
                    THEN /\ AfterAnalyze(s, <<>>)
                         /\ ev' = FetchEvent("early", "nothing", c, limit)
                    ELSE /\ pc' = [pc EXCEPT ![s] = "enriching"]
                         /\ batch' = [batch EXCEPT ![s] = unprocessed_posts]
                         /\ ev' = FetchEvent("fetched", "-", c, limit)
                         /\ ended' = "-"
                         /\ UNCHANGED <<src, idx, results, task_running>>
    /\ TrackFirstRun(s)
    /\ UNCHANGED <<file, monitor, processed, sched, notif, histVars, lifeVars, stopped>>

\* analyze_channel, lines 108-127: the profile lookups answer; then, with no further
\* await, the posts are classified, marked and saved, and the call returns.
AnalyzeBatch(s) ==
    /\ pc[s] = "enriching"
    /\ \E cls \in ClassifierOutcomes, how \in SaveOutcomes :
        LET c == ChannelId(Channels[idx[s]])
            relevant == _analyze_posts_with_llm(batch[s], cls)
            marked == MarkAll(processed, c, PostsToMark(batch[s], relevant))
            res == IF SaveRaises(how) THEN <<>> ELSE ResultOf(c, relevant)
        IN  /\ processed' = marked
            /\ file' \in save_state(file, marked, how)
            /\ persisted' = IF how = "ok" THEN persisted \cup Pairs(marked) ELSE persisted
            /\ everClassified' = [everClassified EXCEPT ![c] = @ \cup Range(batch[s])]
            /\ AfterAnalyze(s, res)
            /\ ev' = Event("analyzed", how, c, relevant)
    /\ TrackFirstRun(s)
    /\ UNCHANGED <<monitor, sched, notif, everNotified, lifeVars, stopped>>

\* _send_notification for the first result not yet notified: nothing is posted when
\* no notification channel is set; otherwise create_post is attempted and may fail.
Notify(s) ==
    /\ pc[s] = "notifying"
    /\ LET r == Head(results[s])
           rest == Tail(results[s])
       IN  \E sent \in {"ok", "failed"} :
            /\ ev' = Event("notify", IF notif THEN sent ELSE "nochannel", r.ch, r.posts)
            /\ everNotified' =
                  IF notif /\ sent = "ok"
                  THEN [everNotified EXCEPT ![r.ch] = @ \cup Range(r.posts)]
                  ELSE everNotified
            /\ IF notif /\ sent = "failed" /\ FailureEnds("notifying")
               THEN EndRun(s, EndOf("notifying"))
               ELSE IF rest # <<>>
               THEN /\ results' = [results EXCEPT ![s] = rest]
                    /\ ended' = "-"
                    /\ UNCHANGED <<pc, src, idx, batch, task_running>>
               ELSE EndRun(s, "returned")
    /\ TrackFirstRun(s)
    /\ UNCHANGED <<file, monitor, processed, sched, notif, everClassified, persisted,
                   lifeVars, stopped>>

Next ==
    \/ TriggerFires
    \/ RunNow
    \/ Stop
    \/ \E s \in Slots : ListChannels(s)
    \/ \E s \in Slots : FetchPosts(s)
    \/ \E s \in Slots : AnalyzeBatch(s)
    \/ \E s \in Slots : Notify(s)
    \/ \E s \in Slots : Unwind(s)

Spec == Init /\ [][Next]_vars

\* ------------------------------------------- the runs under every configuration
\* MonitoringConfig as load_config may build it: either value of
\* process_existing_on_first_run, any first_run_limit from 0 and any message_limit
\* from 1
MonitoringConfigs ==
    {Config(pe, frl, ml) : pe \in BOOLEAN, frl \in 0..MaxBatch, ml \in 1..MaxBatch}

\* A process that found no state file and whose start succeeded
FirstRunInit ==
    /\ InitRest(NoFile)
    /\ monitor = BootState(NoFile, "ok").monitor
    /\ processed = BootState(NoFile, "ok").processed
    /\ sched = BootState(NoFile, "ok").sched
    /\ notif = BootState(NoFile, "ok").notif
    /\ unstarted = BootState(NoFile, "ok").unstarted
    /\ schedule = GoodCron
    /\ config \in MonitoringConfigs
    /\ args = NoArgs
    /\ ev = PlainEvent("boot")

\* The trigger fires and the runs proceed; nothing else calls the monitor
FirstRunNext ==
    \/ TriggerFires
    \/ \E s \in Slots : ListChannels(s)
    \/ \E s \in Slots : FetchPosts(s)
    \/ \E s \in Slots : AnalyzeBatch(s)
    \/ \E s \in Slots : Notify(s)

FirstRunSpec == FirstRunInit /\ [][FirstRunNext]_vars

\* ------------------------------------------------------ the process restarts
\* The process ends, wherever its runs are, and is started again on the file it
\* left: StateManager loads the file, start succeeds.  What the platform was sent
\* stays sent; the rest of the history is that of the new process.
Restart ==
    /\ file' = file
    /\ monitor' = BootState(file, "ok").monitor
    /\ processed' = BootState(file, "ok").processed
    /\ sched' = BootState(file, "ok").sched
    /\ notif' = BootState(file, "ok").notif
    /\ unstarted' = BootState(file, "ok").unstarted
    /\ task_running' = FALSE
    /\ pc' = IdleRun.pc /\ src' = IdleRun.src /\ idx' = IdleRun.idx
    /\ batch' = IdleRun.batch /\ results' = IdleRun.results
    /\ everClassified' = [c \in ChannelIds |-> {}]
    /\ firstRun' = FirstRunAhead
    /\ startpc' = "idle" /\ orphans' = 0
    /\ stopped' = FALSE
    /\ ended' = "-"
    /\ ev' = PlainEvent("boot")
    /\ UNCHANGED <<everNotified, persisted, fixedVars>>

\* A process that found no state file, under the default configuration
RestartInit ==
    /\ FirstRunInit
    /\ config = BaseConfig

RestartNext ==
    \/ FirstRunNext
    \/ Restart

RestartSpec == RestartInit /\ [][RestartNext]_vars

\* ------------------------------------------------------------ the two tools
\* MonitoringScheduler.is_scheduler_running, through TopicMonitor.is_enabled:
\* `self._scheduler is not None and self._scheduler.running`
SchedulerIsSet == sched \/ unstarted
is_enabled == sched

\* MonitoringScheduler.is_task_running, through TopicMonitor.is_running
is_running == task_running

\* mattermost_get_monitoring_status: the dictionary it returns
get_monitoring_status ==
    IF monitor = "none"
    THEN [enabled |-> FALSE, running |-> FALSE, message |-> "not initialized"]
    ELSE [enabled |-> is_enabled, running |-> is_running,
          message |-> IF is_enabled THEN "active" ELSE "stopped"]

\* mattermost_run_monitoring: the dictionary it returns, given how the call of
\* run_now it awaited ended ("returned" or "raised"; a call that is skipped
\* returns).  Without a monitor run_now is not called.
run_monitoring_reply(outcome) ==
    IF monitor = "none" THEN [success |-> FALSE, message |-> "not initialized"]
    ELSE IF outcome = "raised" THEN [success |-> FALSE, message |-> "error"]
    ELSE [success |-> TRUE, message |-> "completed"]

\* the status tool answered
StatusEvent(reply) ==
    [op |-> "status", how |-> "-", ch |-> "-", posts |-> <<>>, reply |-> reply]

\* The tool mattermost_get_monitoring_status is called; it awaits nothing.
GetStatus ==
    /\ ev' = StatusEvent(get_monitoring_status)
    /\ ended' = "-"
    /\ UNCHANGED <<file, monitor, processed, task_running, sched, notif, runVars,
                   ghostVars, lifeVars, stopped>>

\* The tool mattermost_run_monitoring is called and finds no monitor.
RunRefused ==
    /\ monitor = "none"
    /\ ev' = [op |-> "refused", how |-> "run_now", ch |-> "-", posts |-> <<>>,
              reply |-> run_monitoring_reply("-")]
    /\ ended' = "-"
    /\ UNCHANGED <<file, monitor, processed, task_running, sched, notif, runVars,
                   ghostVars, lifeVars, stopped>>

\* The process after app_lifespan: monitoring is disabled in the configuration and
\* no monitor is constructed, or init_monitor constructed one, on no state file,
\* and its start ended in one of its outcomes.
ToolInit ==
    /\ InitRest(NoFile)
    /\ config = BaseConfig /\ args = NoArgs
    /\ ev = PlainEvent("boot")
    /\ \/ /\ monitor = "none" /\ processed = EmptyDict
          /\ sched = FALSE /\ notif = FALSE /\ unstarted = FALSE
          /\ schedule = GoodCron
       \/ \E o \in StartOutcomes :
            /\ monitor = BootState(NoFile, o).monitor
            /\ processed = BootState(NoFile, o).processed
            /\ sched = BootState(NoFile, o).sched
            /\ notif = BootState(NoFile, o).notif
            /\ unstarted = BootState(NoFile, o).unstarted
            /\ schedule \in {sch \in Schedules : SchedulerStarts(sch) <=> o # "bad_cron"}

ToolNext ==
    \/ Next
    \/ GetStatus
    \/ RunRefused

ToolSpec == ToolInit /\ [][ToolNext]_vars

\* ------------------------------------------- TopicMonitor.start, step by step
\* TopicMonitor.start is called: it is suspended at get_users.  One call of start
\* is in progress at a time, and a call that would leave more than MaxOrphans
\* schedulers behind is not made.
StartCall ==
    /\ monitor = "up" /\ startpc = "idle"
    /\ sched => orphans < MaxOrphans
    /\ startpc' = "users"
    /\ stopped' = FALSE
    /\ ev' = PlainEvent("start_call")
    /\ ended' = "-"
    /\ UNCHANGED <<file, monitor, processed, task_running, sched, notif, runVars,
                   ghostVars, fixedVars, unstarted, orphans>>

\* _find_target_user: the user listing answers.  An error and an empty listing
\* raise, and start returns False; otherwise a target is found (the last fallback
\* is the first user) and start is suspended in _setup_notification_channel.
UsersAnswer ==
    /\ startpc = "users"
    /\ \E users \in {"error", "empty", "some"} :
        IF users = "some"
        THEN /\ startpc' = "channel"
             /\ ev' = PlainEvent("target")
        ELSE /\ startpc' = "idle"
             /\ ev' = Event("start", "false", "no_users", <<>>)
    /\ ended' = "-"
    /\ UNCHANGED <<file, monitor, processed, task_running, sched, notif, runVars,
                   ghostVars, fixedVars, unstarted, orphans, stopped>>

\* MonitoringScheduler.start: self._scheduler is replaced by a new scheduler before
\* the cron expression is parsed; a started scheduler it replaces is not shut down
\* and keeps its trigger, and the runs that one started are no longer runs of the
\* scheduler MonitoringScheduler refers to.
SchedulerStart ==
    /\ orphans' = IF sched THEN orphans + 1 ELSE orphans
    /\ src' = [s \in Slots |-> IF sched /\ src[s] = "trigger" THEN "stray" ELSE src[s]]
    /\ sched' = SchedulerStarts(schedule)
    /\ unstarted' = ~SchedulerStarts(schedule)
    /\ ev' = IF SchedulerStarts(schedule) THEN Event("start", "true", "ok", <<>>)
             ELSE Event("start", "false", "bad_cron", <<>>)

\* _setup_notification_channel: get_me, create_direct_channel and the channel
\* listing answer: a direct channel, a fallback channel, or none (an error of
\* get_me or of the listing, or an empty listing), which raises.  With a channel,
\* and no further await, start calls MonitoringScheduler.start and returns its
\* result.
ChannelAnswer ==
    /\ startpc = "channel"
    /\ startpc' = "idle"
    /\ \E chan \in {"dm", "fallback", "none"} :
        IF chan = "none"
        THEN /\ ev' = Event("start", "false", "no_channel", <<>>)
             /\ UNCHANGED <<notif, sched, unstarted, orphans, src>>
        ELSE /\ notif' = TRUE
             /\ SchedulerStart
    /\ ended' = "-"
    /\ UNCHANGED <<file, monitor, processed, task_running, pc, idx, batch, results,
                   ghostVars, fixedVars, stopped>>

\* A TopicMonitor has been constructed on the file f and start was not called yet.
\* The file is one an earlier process wrote after it processed the first channel.
LifeFiles == {FileOf(model_dump_json(<<[k |-> "c1", v |-> <<"m2", "m1">>]>>))}

LifeInit ==
    \E f \in LifeFiles, sch \in Schedules :
        /\ InitRest(f)
        /\ monitor = (IF _load_state(f).raised THEN "none" ELSE "up")
        /\ processed = _load_state(f).posts
        /\ sched = FALSE /\ notif = FALSE /\ unstarted = FALSE
        /\ schedule = sch
        /\ config = BaseConfig /\ args = NoArgs
        /\ ev = PlainEvent("new")

LifeNext ==
    \/ StartCall
    \/ UsersAnswer
    \/ ChannelAnswer
    \/ Stop
    \/ TriggerFires
    \/ RunNow
    \/ \E s \in Slots : ListChannels(s)
    \/ \E s \in Slots : FetchPosts(s)
    \/ \E s \in Slots : AnalyzeBatch(s)
    \/ \E s \in Slots : Notify(s)
    \/ \E s \in Slots : Unwind(s)

LifeSpec == LifeInit /\ [][LifeNext]_vars

\* ------------------------------------------------------ _parse_cron on its own
\* A MonitoringScheduler whose schedule is any string of at most MaxCronLen
\* characters; _parse_cron is called on it, as the tests call it.
CronInit ==
    \E sch \in StringsUpTo(MaxCronLen) :
        /\ InitRest(NoFile)
        /\ monitor = "up" /\ processed = EmptyDict
        /\ sched = FALSE /\ notif = FALSE /\ unstarted = FALSE
        /\ schedule = sch
        /\ config = BaseConfig /\ args = NoArgs
        /\ ev = PlainEvent("new")

ParseCron ==
    /\ LET r == _parse_cron(schedule)
       IN  ev' = Event("parse", IF r.raised THEN "ValueError" ELSE "ok", "-", r.args)
    /\ UNCHANGED <<file, monitor, processed, task_running, sched, notif, runVars,
                   ghostVars, lifeVars, stopped, ended>>

CronNext == ParseCron

CronSpec == CronInit /\ [][CronNext]_vars

\* ------------------------------------------------- the classifier on its own
\* A MessageAnalyzer constructed with llm_config and topics, and a batch of
\* enriched posts.  The posts of a batch have the ids m1, m2, ... in this order.
PostAt(k, body) == [id |-> <<"m1", "m2", "m3", "m4">>[k], message |-> body]
SeqsUpTo(S, n) == UNION {[1..k -> S] : k \in 0..n}

BodyPool == {<<"A", "b">>, <<"b", "a">>, <<"a">>}
TopicPool == {<<"a", "b">>, <<"b">>, <<"A">>}

\* batches of several posts with bodies of the pool, and of one post with any body
Batches ==
    {[k \in 1..Len(q) |-> PostAt(k, q[k])] : q \in SeqsUpTo(BodyPool, MaxBatch)}
        \cup {<<PostAt(1, b)>> : b \in WordsUpTo(MaxBodyLen)}

\* topic lists of several topics of the pool, and of one topic that is any string
TopicLists == SeqsUpTo(TopicPool, MaxTopics) \cup {<<t>> : t \in WordsUpTo(MaxBodyLen)}

\* llm_config: None, one without api_key, one with
LlmConfigs ==
    {[configured |-> FALSE, api_key |-> ""], [configured |-> TRUE, api_key |-> ""],
     [configured |-> TRUE, api_key |-> "sk"]}

\* Texts a language model may answer with
AnswerTexts ==
    {<<>>,
     <<Prose>>,
     <<"{", Prose, "}">>,
     <<"{", "}", "{", "}">>,
     <<"{", "}">>,
     <<"{", "other", "{", "T", "[", "m1", "]", "}", "}">>,
     <<Prose, "{", "topics", "{", "}", "}", Prose>>,
     <<"{", "topics", "{", "T", "[", "m1", "]", "}", "}">>,
     <<Prose, "{", "topics", "{", "T", "[", "m2", "m1", "]", "U", "[", "m1", ForeignId, "]",
       "}", "}">>,
     <<"{", "topics", "{", "T", "[", "]", "U", "m1", "}", "}">>,
     <<"{", "topics", "[", "m1", "]", "}">>,
     <<"{", "topics", "{", "T", "[", "[", "m1", "]", "]", "}", "}">>}

Answers == {AnswerError, AnswerNoContent} \cup {AnswerText(t) : t \in AnswerTexts}
NoAnswer == [kind |-> "none", text |-> <<>>]

ClassifyInit ==
    \E llm \in LlmConfigs, ts \in TopicLists, posts \in Batches :
        /\ InitRest(NoFile)
        /\ monitor = "up" /\ processed = EmptyDict
        /\ sched = FALSE /\ notif = FALSE /\ unstarted = FALSE
        /\ schedule = GoodCron
        /\ config = BaseConfig
        /\ args = [llm |-> llm, topics |-> ts, posts |-> posts]
        /\ ev = PlainEvent("new")

\* what a call did: whether a request was made, the answer to it, the result
CallEvent(op, remote, answer, result) ==
    Event(op, IF remote THEN "remote" ELSE "local", "-",
          [answer |-> IF remote THEN answer ELSE NoAnswer, result |-> result])

\* _analyze_posts_with_llm is called on the batch
ClassifyCall ==
    /\ \E answer \in Answers :
         LET r == AnalyzePostsWithLlm(args.llm, args.topics, args.posts, answer)
         IN  ev' = CallEvent("classified", r.remote, answer, r.result)
    /\ UNCHANGED <<file, monitor, processed, task_running, sched, notif, runVars,
                   ghostVars, lifeVars, stopped, ended>>

\* _fallback_analysis is called on the batch
FallbackCall ==
    /\ ev' = CallEvent("fallback", FALSE, NoAnswer, FallbackAnalysis(args.topics, args.posts))
    /\ UNCHANGED <<file, monitor, processed, task_running, sched, notif, runVars,
                   ghostVars, lifeVars, stopped, ended>>

ClassifyNext == ClassifyCall \/ FallbackCall

ClassifySpec == ClassifyInit /\ [][ClassifyNext]_vars

\* ------------------------------------------- _find_target_user on its own
\* User.roles is one string, the role names separated by blanks.  It is written
\* here in pieces, so that "system_user_access_token" is the piece "system_user"
\* followed by the piece "_access_token".
RoleStrings ==
    {<<>>,
     <<"system_user">>,
     <<"system_admin", " ", "system_user">>,
     <<"system_guest">>,
     <<"system_guest", " ", "system_user", "_access_token">>}

User(roles, is_bot) == [roles |-> roles, is_bot |-> is_bot]
UserListings == SeqsUpTo({User(ro, b) : ro \in RoleStrings, b \in BOOLEAN}, MaxUsers)

\* next((u for u in users if ...), None), given the indices of the users that pass
\* the test: the first of them, 0 for None
FirstUser(passing) ==
    IF passing = {} THEN 0 ELSE CHOOSE i \in passing : \A j \in passing : i <= j

\* `"system_admin" in u.roles`: a test on the string
InRoles(u, role) == Contains(u.roles, role)

\* TopicMonitor._find_target_user on a listing: it raises, or sets
\* _target_user_id to the id of users[target]
_find_target_user(users) ==
    LET admin == FirstUser({i \in DOMAIN users : InRoles(users[i], <<"system_admin">>)})
        regular == FirstUser({i \in DOMAIN users :
                                ~users[i].is_bot /\ InRoles(users[i], <<"system_user">>)})
        nonbot == FirstUser({i \in DOMAIN users : ~users[i].is_bot})
        target == IF admin # 0 THEN admin
                  ELSE IF regular # 0 THEN regular
                  ELSE IF nonbot # 0 THEN nonbot
                  ELSE IF users # <<>> THEN 1
                  ELSE 0
    IN  [raised |-> (users = <<>> \/ target = 0), target |-> target]

UserInit ==
    \E users \in UserListings :
        /\ InitRest(NoFile)
        /\ monitor = "up" /\ processed = EmptyDict
        /\ sched = FALSE /\ notif = FALSE /\ unstarted = FALSE
        /\ schedule = GoodCron
        /\ config = BaseConfig
        /\ args = users
        /\ ev = PlainEvent("new")

\* _find_target_user is called and get_users answers: an error, or the listing
FindTargetUser ==
    /\ \E answer \in {"error", "users"} :
         LET r == _find_target_user(args)
         IN  ev' = IF answer = "error" THEN Event("target", "raised", "error", <<0>>)
                   ELSE Event("target", IF r.raised THEN "raised" ELSE "found", "users",
                              <<r.target>>)
    /\ UNCHANGED <<file, monitor, processed, task_running, sched, notif, runVars,
                   ghostVars, lifeVars, stopped, ended>>

UserNext == FindTargetUser

UserSpec == UserInit /\ [][UserNext]_vars

\* ------------------------------- _setup_notification_channel on its own
\* Channel as far as the fallback reads it: name and type ("O" public, "P" private,
\* "D" direct)
Channel(name, type) == [name |-> name, type |-> type]
ChannelListings ==
    SeqsUpTo({Channel(n, t) : n \in {"town-square", "dev"}, t \in {"O", "P", "D"}},
             MaxChannels)

\* next((c for c in channels if ...), None), given the indices of the channels that
\* pass the test: the first of them, 0 for None
FirstChannel(passing) ==
    IF passing = {} THEN 0 ELSE CHOOSE i \in passing : \A j \in passing : i <= j

\* Whether the fallback is tried: when create_direct_channel raised.  get_me is
\* awaited outside the inner try statement, so its exception is not handled there.
FallsBack(me, dm) == me = "ok" /\ dm # "ok"

\* The exceptions that leave _setup_notification_channel: the outer handler logs
\* and raises again.
SetupRaises(me, dm, listing) ==
    \/ me # "ok"
    \/ FallsBack(me, dm) /\ listing # "ok"

\* TopicMonitor._setup_notification_channel with a target user set, given the
\* outcomes of get_me, create_direct_channel and get_channels and the listing:
\* it raises, or sets _notification_channel_id to the direct channel (dm) or to
\* the id of channels[channel]
_setup_notification_channel(me, dm, listing, channels) ==
    LET town == FirstChannel({i \in DOMAIN channels : channels[i].name = "town-square"})
        public == FirstChannel({i \in DOMAIN channels : channels[i].type = "O"})
        fallback == IF town # 0 THEN town
                    ELSE IF public # 0 THEN public
                    ELSE IF channels # <<>> THEN 1
                    ELSE 0
    IN  IF SetupRaises(me, dm, listing) THEN [raised |-> TRUE, dm |-> FALSE, channel |-> 0]
        ELSE IF ~FallsBack(me, dm) THEN [raised |-> FALSE, dm |-> TRUE, channel |-> 0]
        ELSE [raised |-> fallback = 0, dm |-> FALSE, channel |-> fallback]

ChannelInit ==
    \E channels \in ChannelListings :
        /\ InitRest(NoFile)
        /\ monitor = "up" /\ processed = EmptyDict
        /\ sched = FALSE /\ notif = FALSE /\ unstarted = FALSE
        /\ schedule = GoodCron
        /\ config = BaseConfig
        /\ args = channels
        /\ ev = PlainEvent("new")

\* _setup_notification_channel is called and the remote calls answer
SetupNotificationChannel ==
    /\ \E me \in {"ok", "error"}, dm \in {"ok", "error"}, listing \in {"ok", "error"} :
         LET r == _setup_notification_channel(me, dm, listing, args)
         IN  ev' = Event("channel",
                         IF r.raised THEN "raised" ELSE IF r.dm THEN "dm" ELSE "fallback",
                         [me |-> me, dm |-> dm, listing |-> listing], <<r.channel>>)
    /\ notif' = (ev'.how # "raised")
    /\ UNCHANGED <<file, monitor, processed, task_running, sched, runVars,
                   ghostVars, lifeVars, stopped, ended>>

ChannelNext == SetupNotificationChannel

ChannelSpec == ChannelInit /\ [][ChannelNext]_vars

\* ------------------------------- _enrich_posts_with_user_info on its own
\* The batch by the user_id of each post
Authors == {"u1", "u2"}
AuthoredBatches == SeqsUpTo(Authors, MaxAuthored)

\* The loop of _enrich_posts_with_user_info from post i on.  user_cache holds the
\* authors whose profile was fetched; outcomes[i] is what get_user_profile does if
\* it is called for post i.  An author is cached only when the call returned: the
\* assignment to user_cache follows the await inside the try statement.
\* [enriched, lookups]: per post whether it got user_info, and the user_ids
\* get_user_profile was called with, in order.
RECURSIVE EnrichFrom(_, _, _, _)
EnrichFrom(posts, outcomes, i, user_cache) ==
    IF i > Len(posts) THEN [enriched |-> <<>>, lookups |-> <<>>]
    ELSE LET u == posts[i]
             called == u \notin user_cache
             got == ~called \/ outcomes[i] = "ok"
             rest == EnrichFrom(posts, outcomes, i + 1,
                                IF called /\ got THEN user_cache \cup {u} ELSE user_cache)
         IN  [enriched |-> <<[user_id |-> u, user_info |-> got]>> \o rest.enriched,
              lookups |-> (IF called THEN <<u>> ELSE <<>>) \o rest.lookups]

_enrich_posts_with_user_info(posts, outcomes) == EnrichFrom(posts, outcomes, 1, {})

EnrichInit ==
    \E posts \in AuthoredBatches :
      \E outcomes \in [1..Len(posts) -> {"ok", "error"}] :
        /\ InitRest(NoFile)
        /\ monitor = "up" /\ processed = EmptyDict
        /\ sched = FALSE /\ notif = FALSE /\ unstarted = FALSE
        /\ schedule = GoodCron
        /\ config = BaseConfig
        /\ args = [posts |-> posts, outcomes |-> outcomes]
        /\ ev = PlainEvent("new")

\* _enrich_posts_with_user_info is called on the batch and the lookups answer
EnrichPosts ==
    /\ ev' = Event("enriched", "-", "-", _enrich_posts_with_user_info(args.posts, args.outcomes))
    /\ UNCHANGED <<file, monitor, processed, task_running, sched, notif, runVars,
                   ghostVars, lifeVars, stopped, ended>>

EnrichNext == EnrichPosts

EnrichSpec == EnrichInit /\ [][EnrichNext]_vars

\* ------------------------------------------- the StateManager on its own
\* The operations of StateManager called directly, as its tests call them.
StoreMark(c, p) ==
    /\ monitor = "up"
    /\ ev' = Event("mark", IF is_post_processed(processed, c, p) THEN "present" ELSE "new",
                   c, <<p>>)
    /\ processed' = mark_post_processed(processed, c, p)
    /\ UNCHANGED <<file, monitor, task_running, sched, notif, runVars, ghostVars,
                   lifeVars, stopped, ended>>

\* is_post_processed called: processed_posts after `.get(channel_id, [])`, which
\* inserts nothing
AfterQuery(d, c) == d

StoreQuery(c, p) ==
    /\ monitor = "up"
    /\ ev' = Event("query", IF is_post_processed(processed, c, p) THEN "true" ELSE "false",
                   c, <<p>>)
    /\ processed' = AfterQuery(processed, c)
    /\ UNCHANGED <<file, monitor, task_running, sched, notif, runVars, ghostVars,
                   lifeVars, stopped, ended>>

StoreSave ==
    /\ monitor = "up"
    /\ \E how \in SaveOutcomes :
        /\ file' \in save_state(file, processed, how)
        /\ persisted' = IF how = "ok" THEN persisted \cup Pairs(processed) ELSE persisted
        /\ ev' = Event("save", how, "-", <<>>)
    /\ UNCHANGED <<monitor, processed, task_running, sched, notif, runVars,
                   everClassified, everNotified, firstRun, lifeVars, stopped, ended>>

\* StateManager(path): a fresh manager on the same path replaces the current one.
StoreConstruct ==
    /\ monitor' = IF _load_state(file).raised THEN "none" ELSE "up"
    /\ processed' = _load_state(file).posts
    /\ ev' = PlainEvent("construct")
    /\ UNCHANGED <<file, task_running, sched, notif, runVars, ghostVars, lifeVars,
                   stopped, ended>>

StoreNext ==
    \/ \E c \in ChannelIds : \E p \in Range(Timeline(c)) : StoreMark(c, p)
    \/ \E c \in ChannelIds : \E p \in Msgs : StoreQuery(c, p)
    \/ StoreSave
    \/ StoreConstruct

StoreSpec == Init /\ [][StoreNext]_vars

\* ================================================================ claims
RunStarts == \E s \in Slots : ~Running(s) /\ Running(s)'

\* C1: at most one execution of the monitoring routine (the callback given to
\* MonitoringScheduler) is in progress at any time, whatever the interleaving of
\* trigger fires and run_now calls.
C1_AtMostOneRun == Cardinality({s \in Slots : Running(s)}) <= 1

\* A run is suspended in the middle of a channel and an invocation that arrived
\* meanwhile has been turned away.
C1_Witness ==
    /\ ev.op = "skip"
    /\ \E s \in Slots : pc[s] = "enriching" /\ src[s] = "trigger"

\* C2: an invocation of _run_callback that arrives while the flag is set is
\* dropped: that step changes nothing of the program (no call is made, the
\* processed state, the file and the flag stay), and it is not queued: a run begins
\* only in the step of an invocation that found the flag clear, never in the step
\* that clears the flag or in any other.
C2_SkipIsDropped ==
    [][/\ (task_running /\ ev'.op \in {"skip", "enter"}) =>
            /\ ev'.op = "skip"
            /\ UNCHANGED <<file, monitor, processed, task_running, sched, notif, runVars,
                           ghostVars>>
       /\ RunStarts => (~task_running /\ ev'.op = "enter")
       /\ (task_running /\ ~task_running') => \A s \in Slots : ~Running(s)'
      ]_vars

\* An invocation arrived while a run asked for by the tool was sending its
\* notifications, and was dropped.
C2_Witness ==
    /\ ev.op = "skip"
    /\ task_running
    /\ \E s \in Slots : pc[s] = "notifying" /\ src[s] = "run_now"
    /\ processed # EmptyDict

\* The step in which the analyze_channel call of coroutine s classifies, marks,
\* saves and returns; the step in which s sends (or drops) its next notification.
AnalyzeStep(s) == pc[s] = "enriching" /\ ev'.op = "analyzed" /\ pc'[s] # "enriching"
NotifyStep(s) == pc[s] = "notifying" /\ ev'.op = "notify"
ChannelOf(s) == ChannelId(Channels[idx[s]])
ProcessedIds(d, c) == Range(get_processed_post_ids(d, c))

\* C3: within one process lifetime each message id of a channel is handed to the
\* classifier in at most one run and is counted in at most one notification: the
\* batch that is classified holds no id that is already processed or was classified
\* before, and a notification counts no id an earlier posted notification counted.
C3_ClassifiedAndNotifiedOnce ==
    [][\A s \in Slots :
        /\ AnalyzeStep(s) =>
            /\ Range(batch[s]) \cap ProcessedIds(processed, ChannelOf(s)) = {}
            /\ Range(batch[s]) \cap everClassified[ChannelOf(s)] = {}
        /\ NotifyStep(s) =>
            Range(Head(results[s]).posts) \cap everNotified[Head(results[s]).ch] = {}
      ]_vars

\* Every post of the first channel was classified and notified, and a later
\* analysis of that channel ended early, with nothing to classify.
C3_Witness ==
    /\ everClassified["c1"] = {"m1", "m2"}
    /\ everNotified["c1"] = {"m1", "m2"}
    /\ ev.op = "early"
    /\ \E s \in Slots : pc[s] = "listing" /\ idx[s] = 2 /\ results[s] = <<>>

\* C4: forward progress: when analyze_channel found the channel and fetched a batch
\* with K unprocessed posts, then on return all K ids are in the processed set of
\* the channel and a save of that state was attempted, whatever the classifier
\* answered.
C4_ForwardProgress ==
    [][\A s \in Slots : AnalyzeStep(s) =>
        /\ Range(batch[s]) \subseteq ProcessedIds(processed', ChannelOf(s))
        /\ ev'.how \in SaveOutcomes
        /\ file' \in save_state(file, processed', ev'.how)
      ]_vars

\* Two posts were fetched, the classifier found neither relevant, and both are
\* processed and saved.
C4_Witness ==
    /\ ev = Event("analyzed", "ok", "c1", <<>>)
    /\ get_processed_post_ids(processed, "c1") = <<"m2", "m1">>
    /\ file = FileOf(model_dump_json(processed))

\* C5: a save_state that fails raises nothing and does not change the outcome of
\* the run: the processed set keeps every id marked so far and gains the batch,
\* analyze_channel returns what the classifier's verdict alone decides (a result
\* exactly when a post was relevant), and the run goes on to the remaining
\* channels and to the notifications.
C5_FailedSaveIsSwallowed ==
    [][\A s \in Slots : (AnalyzeStep(s) /\ ev'.how # "ok") =>
        LET returned == IF ev'.posts = <<>> THEN <<>>
                        ELSE <<[ch |-> ChannelOf(s), posts |-> ev'.posts]>>
            all == results[s] \o returned
        IN  /\ Pairs(processed) \subseteq Pairs(processed')
            /\ Range(batch[s]) \subseteq ProcessedIds(processed', ChannelOf(s))
            /\ IF idx[s] < Len(Channels)
               THEN pc'[s] = "listing" /\ idx'[s] = idx[s] + 1 /\ results'[s] = all
                    /\ task_running'
               ELSE IF all # <<>>
               THEN pc'[s] = "notifying" /\ results'[s] = all /\ task_running'
               ELSE pc'[s] = "idle"
      ]_vars

\* The save of the first channel failed before the file was opened, its result was
\* kept, and the run went on to the second channel and is now notifying both.
C5_Witness ==
    /\ \E s \in Slots : pc[s] = "notifying" /\ Len(results[s]) = 2
    /\ ~file.exists
    /\ processed # EmptyDict

\* ------------------------------------------------ claims on the state file
SaveStep == ev'.op \in {"save", "analyzed"} /\ ev'.how \in SaveOutcomes
CompleteDocument(f) == f.exists /\ ParseDocument(f.data).err = "none"

\* C6: save_state overwrites the file atomically: after a save, also one that
\* failed or was interrupted, a reader finds either the complete previous document
\* (the file as it was) or the complete new one, never a truncated document.
C6_SaveIsAtomic ==
    [][SaveStep => file' \in {file, FileOf(model_dump_json(processed'))}]_vars

\* C7: processed membership is monotonic for the lifetime of the state file: a
\* pair that a complete document in the file has held is in memory after every
\* later load and in the file after every later save.
C7_PersistedNeverLost ==
    /\ ev.op \in {"construct", "boot"} => persisted \subseteq Pairs(processed)
    /\ (ev.op \in {"save", "analyzed"} /\ ev.how = "ok") =>
            persisted \subseteq Pairs(ParseDocument(file.data).v)

NoDuplicates(d) == \A i \in 1..Len(d) : NoDupSeq(d[i].v)

\* C8: mark_post_processed is an idempotent insert: marking a pair that is present
\* leaves the processed lists as they are, and no sequence of marks, saves and
\* loads makes an id occur twice in the list of a channel.
C8_MarkIsIdempotent ==
    [][/\ (ev'.op = "mark" /\ is_post_processed(processed, ev'.ch, ev'.posts[1])) =>
            processed' = processed
       /\ NoDuplicates(processed) => NoDuplicates(processed')
      ]_vars

\* A pair already present was marked again; the channel holds both its posts once.
C8_Witness ==
    /\ ev.op = "mark" /\ ev.how = "present"
    /\ Len(get_processed_post_ids(processed, "c1")) = 2
    /\ NoDuplicates(processed)

\* C9: persistence round trip: after a save that succeeded, a fresh StateManager
\* on the same path reports for every channel the same ids in the same order, and
\* no pair that was not marked.
C9_RoundTrip ==
    [][(SaveStep /\ ev'.how = "ok") =>
        LET fresh == _load_state(file')
        IN  /\ ~fresh.raised
            /\ \A c \in ChannelIds :
                 get_processed_post_ids(fresh.posts, c) = get_processed_post_ids(processed', c)
            /\ Pairs(fresh.posts) = Pairs(processed')
      ]_vars

\* A state with two channels, one of them holding two posts, was saved.
C9_Witness ==
    /\ ev = Event("save", "ok", "-", <<>>)
    /\ Len(processed) = 2
    /\ get_processed_post_ids(processed, "c1") = <<"m1", "m2">>
    /\ file = FileOf(model_dump_json(processed))

\* C10: constructing a StateManager never fails because of the state file: when the
\* file is missing, is not valid JSON or does not fit the schema, the manager
\* starts empty, and is_post_processed is false for every pair.
C10_ConstructNeverFails ==
    ev.op \in {"construct", "boot"} =>
        /\ monitor = "up"
        /\ ~CompleteDocument(file) =>
             \A c \in ChannelIds, p \in Msgs : ~is_post_processed(processed, c, p)

\* A manager was constructed on a file that a torn write left behind.
C10_Witness ==
    /\ ev.op = "construct"
    /\ file.exists /\ ParseDocument(file.data).err = "json"
    /\ persisted # {}
    /\ monitor = "up" /\ processed = EmptyDict

\* ------------------------------------------------ claims on the processed set
\* The pairs a manager constructed on the file f starts with
LoadedPairs(f) == IF CompleteDocument(f) THEN Pairs(ParseDocument(f.data).v) ELSE {}

\* C11: is_post_processed(c, m) is true exactly when the pair was loaded from the
\* state file or was marked earlier in this instance: a fresh manager answers true
\* for the pairs of the document it loaded and for no other, marking (c, m) makes
\* the answer true for (c, m) and changes it for no other message and no other
\* channel (so a channel never marked and not loaded answers false for every
\* message), a save changes no answer, and the query returns the membership and
\* changes no state.
C11_MembershipIsExact ==
    [][/\ ev'.op = "construct" =>
            \A c \in ChannelIds, p \in Msgs :
                is_post_processed(processed', c, p) <=> <<c, p>> \in LoadedPairs(file)
       /\ ev'.op = "mark" =>
            \A c \in ChannelIds, p \in Msgs :
                is_post_processed(processed', c, p) <=>
                    \/ <<c, p>> \in Pairs(processed)
                    \/ (c = ev'.ch /\ p = ev'.posts[1])
       /\ ev'.op = "save" => Pairs(processed') = Pairs(processed)
       /\ ev'.op = "query" =>
            /\ ev'.how = "true" <=> <<ev'.ch, ev'.posts[1]>> \in Pairs(processed)
            /\ UNCHANGED <<file, monitor, processed, task_running, sched, notif,
                           runVars, ghostVars, lifeVars, stopped, ended>>
      ]_vars

\* One post of the first channel is marked; a query for a post of the second
\* channel, which was never marked and has no entry, answered false.
C11_Witness ==
    /\ ev = Event("query", "false", "c2", <<"m3">>)
    /\ ~DictHas(processed, "c2")
    /\ is_post_processed(processed, "c1", "m1")
    /\ ~is_post_processed(processed, "c1", "m2")

\* ------------------------------------------------------ claims on the lifecycle
\* The fields of a string, said without splitting it: a field starts at a
\* character that is no whitespace and follows whitespace or nothing, and runs up
\* to the last character before the next whitespace.
FieldStarts(str) ==
    {i \in 1..Len(str) : str[i] \notin Whitespace /\ (i = 1 \/ str[i - 1] \in Whitespace)}
FieldEnd(str, i) ==
    CHOOSE j \in i..Len(str) :
        /\ \A k \in i..j : str[k] \notin Whitespace
        /\ j = Len(str) \/ str[j + 1] \in Whitespace
FieldAt(str, n) ==
    LET i == CHOOSE k \in FieldStarts(str) :
                 Cardinality({h \in FieldStarts(str) : h < k}) = n - 1
    IN  SubSeq(str, i, FieldEnd(str, i))
FieldCount(str) == Cardinality(FieldStarts(str))

\* A cron expression no scheduler can be started with
Malformed(str) ==
    FieldCount(str) # 5 \/ \E n \in 1..5 : FieldAt(str, n) # <<"*">>

StartEnds == startpc # "idle" /\ startpc' = "idle" /\ ev'.op = "start"
TriggerRunBegins ==
    \E s \in Slots : ~Running(s) /\ Running(s)' /\ src'[s] \in {"trigger", "stray"}

\* C12: each fatal-to-start condition (the user listing fails or is empty, no
\* notification channel can be resolved, the cron expression is malformed) makes
\* TopicMonitor.start return False and register no trigger: a monitor that had no
\* trigger registered has none afterwards, is_enabled is false, and a
\* trigger-initiated run begins only while a trigger is registered, so none
\* begins after the failed start.
C12_FatalStartFails ==
    [][/\ (StartEnds /\ (ev'.ch \in {"no_users", "no_channel"} \/ Malformed(schedule))) =>
            /\ ev'.how = "false"
            /\ ev'.ch # "ok"
            /\ Registered = {} => (Registered' = {} /\ ~is_enabled')
            /\ orphans' = orphans /\ (sched' => sched)
       /\ TriggerRunBegins => Registered # {}
      ]_vars

\* A start found a user and a notification channel and then failed on a schedule
\* with five fields of which one is no cron expression: the scheduler object
\* exists, is not started, and no trigger is registered.
C12_Witness ==
    /\ ev = Event("start", "false", "bad_cron", <<>>)
    /\ FieldCount(schedule) = 5
    /\ unstarted /\ notif /\ ~is_enabled /\ Registered = {}

\* C13: _parse_cron maps a schedule of exactly five whitespace-separated fields to
\* minute, hour, day, month and day_of_week, in that order and each field as it is
\* written, and raises ValueError for every schedule whose field count is not
\* five (none, fewer, more).
C13_ParseCronFiveFields ==
    ev.op = "parse" =>
        IF FieldCount(schedule) = 5
        THEN /\ ev.how = "ok"
             /\ ev.posts = [minute |-> FieldAt(schedule, 1), hour |-> FieldAt(schedule, 2),
                            day |-> FieldAt(schedule, 3), month |-> FieldAt(schedule, 4),
                            day_of_week |-> FieldAt(schedule, 5)]
        ELSE ev.how = "ValueError"

\* The schedule "* **  * * *", with a field of two characters and a gap of two
\* blanks, was parsed.
C13_Witness ==
    /\ schedule = <<"*", " ", "*", "*", " ", " ", "*", " ", "*", " ", "*">>
    /\ ev.op = "parse" /\ ev.how = "ok"
    /\ ev.posts.minute = <<"*">> /\ ev.posts.hour = <<"*", "*">>
    /\ ev.posts.day_of_week = <<"*">>

\* C14: stop is safe in every state: called on a monitor that was never started,
\* is running, is already stopped, or whose start failed, it returns True and
\* leaves the scheduler Stopped (no trigger registered, is_scheduler_running
\* false); a stop that follows a stop changes nothing and returns True too.
C14_StopIsSafe ==
    [][ev'.op = "stop" =>
        /\ ev'.how = "true"
        /\ ~is_enabled' /\ Registered' = {}
        /\ ev.op = "stop" =>
             UNCHANGED <<file, monitor, processed, task_running, sched, notif, runVars,
                         ghostVars, lifeVars>>
      ]_vars

\* C15: after stop has returned, no trigger-initiated run begins until start is
\* called again, whatever calls of start and stop came before (start called twice
\* without a stop in between included).
C15_NoTriggerRunAfterStop == [][TriggerRunBegins => ~stopped]_vars

\* ------------------------------------------------------- claims on the run
\* C16: stopping the scheduler while a run is executing does not interrupt the
\* run: the stop leaves every coroutine where it is suspended and the flag set,
\* and the run ends only by returning, after its last channel (and its
\* notifications), when the flag is cleared.
C16_StopDoesNotInterrupt ==
    [][/\ ev'.op = "stop" => UNCHANGED <<runVars, task_running>>
       /\ \A s \in Slots : (Running(s) /\ ~Running(s)') =>
            (ended' = "returned" /\ idx[s] = Len(Channels) /\ ~task_running')
      ]_vars

RunNowStep == ev'.op \in {"enter", "skip"} /\ ev'.how = "run_now"

\* C17: run_now bypasses the trigger but not the guard.  Whatever the state of the
\* scheduler (running, stopped, never started), run_now can be called; when no
\* run is in progress it begins a run at the first channel, and that run is not
\* cut short: it ends only by returning, after the last channel and the last
\* notification, which is when run_now returns; when a run is in progress it
\* changes nothing.
C17_RunNowRunsToTheEnd ==
    [][/\ monitor = "up" => ENABLED RunNow
       /\ RunNowStep =>
            IF task_running
            THEN /\ ev'.op = "skip"
                 /\ UNCHANGED <<file, monitor, processed, task_running, sched, notif,
                                runVars, ghostVars, lifeVars, stopped>>
            ELSE /\ ev'.op = "enter"
                 /\ \E s \in Slots :
                      ~Running(s) /\ pc'[s] = "listing" /\ idx'[s] = 1 /\ src'[s] = "run_now"
       /\ \A s \in Slots : (src[s] = "run_now" /\ Running(s)) =>
            /\ pc'[s] # "cancelled"
            /\ Running(s)' => (src'[s] = "run_now" /\ task_running')
            /\ ~Running(s)' =>
                 /\ ended' = "returned"
                 /\ idx[s] = Len(Channels)
                 /\ pc[s] = "notifying" => Len(results[s]) = 1
      ]_vars

\* The scheduler was stopped; a run asked for through run_now analyzed both
\* channels and is sending its notifications.
C17_Witness ==
    /\ stopped /\ ~is_enabled
    /\ \E s \in Slots :
         src[s] = "run_now" /\ pc[s] = "notifying" /\ idx[s] = Len(Channels)
         /\ Len(results[s]) = 2

TriggerCount == (IF sched THEN 1 ELSE 0) + orphans

\* C18: the monitor is in exactly one of Stopped, Starting and Running: in every
\* reachable state, whatever starts, stops and trigger fires came before, the
\* notification target is not being resolved while a recurring trigger is
\* registered, and at most one recurring trigger is registered.
C18_OneLifecycleState ==
    /\ ~(startpc # "idle" /\ Registered # {})
    /\ TriggerCount <= 1

\* A step in which an operation of the run failed: the channel listing or the
\* post listing raised, the save failed, the notification post raised.  (A failed
\* author lookup and a failed classifier call are absorbed inside the step that
\* classifies: the post keeps no author name, the keyword fallback classifies.)
FailureStep ==
    \/ ev'.op = "early" /\ ev'.how = "error"
    \/ ev'.op = "analyzed" /\ ev'.how # "ok"
    \/ ev'.op = "notify" /\ ev'.how = "failed"

\* C19: no error raised inside a monitoring run leaves the run path: no invocation
\* of _run_callback, by the trigger or by run_now, ends by raising such an error,
\* and after every step in which an operation failed the run either goes on (the
\* flag stays set) or has returned normally (the flag is cleared).
C19_NoErrorLeavesTheRun ==
    [][/\ ended' # "raised"
       /\ FailureStep =>
            \/ ended' = "-" /\ task_running' /\ \E s \in Slots : Running(s)'
            \/ ended' = "returned" /\ ~task_running' /\ \A s \in Slots : ~Running(s)'
      ]_vars

\* The last notification of a run could not be posted, and the invocation returned.
C19_Witness ==
    /\ ev.op = "notify" /\ ev.how = "failed"
    /\ ended = "returned" /\ ~task_running
    /\ file.exists

\* The step in which the analysis of the channel of coroutine s fails: the channel
\* listing or the post listing raised, or the save after marking failed
AnalysisFails(s) ==
    \/ pc[s] \in {"listing", "fetching"} /\ ev'.op = "early" /\ ev'.how = "error"
    \/ pc[s] = "enriching" /\ ev'.op = "analyzed" /\ ev'.how # "ok"

\* C20: a failure while analyzing one channel does not abort the run, and the
\* channels are analyzed once each, one after the other, in configured order: a
\* run begins with the first channel; the analysis of channel i is followed by
\* that of channel i + 1, also when it failed; no channel is begun twice; the
\* notifications, and the end of a run that returns, come only after the last
\* channel.  (A run that a stop cancels ends where it is: C16.)
C20_FailureDoesNotAbort ==
    [][\A s \in Slots :
        /\ (~Running(s) /\ Running(s)') => (idx'[s] = 1 /\ pc'[s] = "listing")
        /\ (Running(s) /\ Running(s)' /\ pc'[s] # "cancelled") =>
            \/ /\ idx'[s] = idx[s]
               /\ pc'[s] = "listing" => pc[s] = "listing"
               /\ pc'[s] = "notifying" => idx[s] = Len(Channels)
            \/ /\ idx'[s] = idx[s] + 1
               /\ pc[s] \in {"listing", "fetching", "enriching"}
               /\ pc'[s] = "listing"
        /\ AnalysisFails(s) =>
            IF idx[s] < Len(Channels)
            THEN pc'[s] = "listing" /\ idx'[s] = idx[s] + 1
            ELSE pc'[s] \in {"notifying", "idle"} /\ (pc'[s] = "idle" => ended' = "returned")
        /\ (Running(s) /\ ~Running(s)' /\ ended' # "cancelled") => idx[s] = Len(Channels)
      ]_vars

\* The post listing of the first channel raised, and the run of the trigger is
\* at the second channel.
C20_Witness ==
    /\ ev = Event("early", "error", "c1", <<>>)
    /\ \E s \in Slots :
         idx[s] = 2 /\ pc[s] = "listing" /\ src[s] = "trigger" /\ results[s] = <<>>
    /\ task_running

\* ------------------------------------------------ claims on the notifications
\* C21: a failure to post the notification of one channel does not prevent the
\* others.  The notifications begin with every result of the run pending; each
\* step of the loop is the attempt for the first pending result (a post attempt
\* whenever a notification channel is set), and whether it succeeds or fails the
\* remaining results stay pending and the loop goes on; the run ends only with
\* the attempt for the last result.
C21_FailedPostDoesNotStopTheOthers ==
    [][\A s \in Slots :
        /\ (pc[s] = "enriching" /\ pc'[s] = "notifying") =>
            /\ Len(results'[s]) >= Len(results[s])
            /\ SubSeq(results'[s], 1, Len(results[s])) = results[s]
        /\ NotifyStep(s) =>
            /\ ev'.ch = Head(results[s]).ch /\ ev'.posts = Head(results[s]).posts
            /\ notif => ev'.how \in {"ok", "failed"}
            /\ IF Len(results[s]) > 1
               THEN /\ pc'[s] = "notifying" /\ task_running'
                    /\ results'[s] = Tail(results[s])
               ELSE ~Running(s)' /\ ended' = "returned"
        /\ (pc[s] = "notifying" /\ pc'[s] = "notifying" /\ ~NotifyStep(s)) =>
            results'[s] = results[s]
      ]_vars

\* The notification of the first channel could not be posted, and the run is about
\* to attempt the notification of the second.
C21_Witness ==
    /\ ev.op = "notify" /\ ev.how = "failed" /\ ev.ch = "c1"
    /\ \E s \in Slots :
         pc[s] = "notifying" /\ Len(results[s]) = 1 /\ Head(results[s]).ch = "c2"
    /\ task_running

\* The step in which the analysis of the channel of coroutine s ends with nothing
\* to classify: the channel is not listed, the listing or the fetch failed, or
\* every fetched post is processed already
EarlyStep(s) == pc[s] \in {"listing", "fetching"} /\ ev'.op = "early"

\* C29: a notification is posted for a channel in a run only if at least one newly
\* fetched, not yet processed message of that channel was judged relevant in that
\* run.  A run begins with no result; a channel that is not found, has no
\* unprocessed message or has no relevant message adds none; a result is added
\* only by an analysis that judged posts relevant, it names that channel and
\* exactly those posts, which were fetched in that analysis and were not
\* processed; and a notification is sent only for a result of the run, never
\* for an empty one.
C29_NotificationNeedsRelevantPost ==
    [][\A s \in Slots :
        /\ (~Running(s) /\ Running(s)') => results'[s] = <<>>
        /\ (EarlyStep(s) /\ Running(s)') => results'[s] = results[s]
        /\ AnalyzeStep(s) =>
            /\ Range(ev'.posts) \subseteq Range(batch[s])
            /\ Range(batch[s]) \cap ProcessedIds(processed, ChannelOf(s)) = {}
            /\ Range(batch[s]) \subseteq Range(Timeline(ChannelOf(s)))
            /\ Running(s)' =>
                 results'[s] = IF ev'.posts = <<>> THEN results[s]
                               ELSE Append(results[s], [ch |-> ChannelOf(s), posts |-> ev'.posts])
            /\ (~Running(s)' /\ idx[s] = Len(Channels)) =>
                 (ev'.posts = <<>> /\ results[s] = <<>>)
        /\ (Running(s) /\ Running(s)' /\ ~AnalyzeStep(s) /\ ~NotifyStep(s)) =>
            results'[s] = results[s]
        /\ NotifyStep(s) =>
            /\ results[s] # <<>>
            /\ Head(results[s]).posts # <<>>
            /\ ev'.posts = Head(results[s]).posts /\ ev'.ch = Head(results[s]).ch
        /\ ev'.op = "notify" => \E r \in Slots : pc[r] = "notifying"
      ]_vars

\* The posts of the first channel were classified and none was relevant; the post
\* of the second was: the run is about to notify for the second channel alone.
C29_Witness ==
    /\ ev.op = "analyzed" /\ ev.ch = "c2" /\ ev.posts = <<"m3">>
    /\ everClassified["c1"] # {} /\ everNotified["c1"] = {}
    /\ \E s \in Slots :
         pc[s] = "notifying" /\ results[s] = <<[ch |-> "c2", posts |-> <<"m3">>]>>

\* ------------------------------------------------ claims on the first run
\* The step in which the post listing of the channel of coroutine s answers
FetchStep(s) ==
    /\ pc[s] = "fetching"
    /\ ev'.op = "fetched" \/ (ev'.op = "early" /\ ev'.how = "nothing")

\* C22: the post listing is asked for first_run_limit posts only in the first run
\* of the process and only when process_existing_on_first_run is off; in every
\* later run, and in every run when it is on, it is asked for message_limit posts.
C22_FirstRunLimitOnFirstRunOnly ==
    [][\A s \in Slots :
        FetchStep(s) =>
            ev'.limit = IF IsFirstRun(s) /\ ~config.process_existing_on_first_run
                        THEN config.first_run_limit ELSE config.message_limit]_vars

\* C23: with process_existing_on_first_run off, the first run marks the posts it
\* fetched as processed and posts no notification, whatever the classifier said
\* of them.
C23_FirstRunOnlySeeds ==
    [][\A s \in Slots :
        (IsFirstRun(s) /\ ~config.process_existing_on_first_run) =>
            /\ AnalyzeStep(s) =>
                  Range(batch[s]) \subseteq ProcessedIds(processed', ChannelOf(s))
            /\ NotifyStep(s) => ev'.how # "ok"]_vars

\* C24: a post that a posted notification counted is not counted by a later posted
\* notification, also when the save of its mark failed and the process was
\* restarted on the file the failed save left.
C24_NoSecondNotificationAfterFailedSave ==
    [][\A s \in Slots :
        (NotifyStep(s) /\ ev'.how = "ok") =>
            Range(ev'.posts) \cap everNotified[ev'.ch] = {}]_vars

\* ------------------------------------------------ claims on the classifier
\* Whether topic t occurs in the body of post p when case is ignored, said
\* character by character
SameLetter(x, y) == x = y \/ {x, y} = {"a", "A"}
OccursIn(t, p) ==
    \E i \in 0..(Len(p.message) - Len(t)) :
        \A k \in 1..Len(t) : SameLetter(p.message[i + k], t[k])
Relevant(p) == \E n \in 1..Len(args.topics) : OccursIn(args.topics[n], p)

\* C28: the deterministic strategy marks a message relevant exactly when at least
\* one configured topic is a case-insensitive substring of its body; the relevant
\* list keeps input order and contains each message once however many topics
\* match it; the topic list of a message contains every matching topic (in the
\* order of the topic list) and a message that is not relevant has none; the
\* matched topics are those that occur in some message.
C28_DeterministicStrategy ==
    ev.op = "fallback" =>
        LET res == ev.posts.result
        IN  /\ res.relevant_posts = SelectSeq(args.posts, Relevant)
            /\ \A k \in 1..Len(args.posts) :
                 LET p == args.posts[k]
                 IN  /\ DictGet(res.post_topics, p.id)
                            = SelectSeq(args.topics, LAMBDA t : OccursIn(t, p))
                     /\ DictHas(res.post_topics, p.id) <=> Relevant(p)
            /\ \A e \in Range(res.post_topics) : e.k \in {p.id : p \in Range(args.posts)}
            /\ res.relevant_topics =
                 {t \in Range(args.topics) : \E p \in Range(args.posts) : OccursIn(t, p)}

\* Two posts; the first matches both topics, in another case than the topic is
\* written in, and is listed once with both; the second matches one.
C28_Witness ==
    /\ ev.op = "fallback"
    /\ args.topics = << <<"a", "b">>, <<"A">> >>
    /\ args.posts = <<PostAt(1, <<"A", "b">>), PostAt(2, <<"a">>)>>
    /\ ev.posts.result.relevant_posts = args.posts
    /\ DictGet(ev.posts.result.post_topics, "m1") = args.topics
    /\ DictGet(ev.posts.result.post_topics, "m2") = << <<"A">> >>

NoApiKey == ~args.llm.configured \/ args.llm.api_key = ""

\* C25: a classifier with no API key configured (no llm_config, or one whose
\* api_key is empty) returns, for every batch and every topic list, exactly the
\* result of the deterministic strategy on the same input (same relevant
\* messages in the same order, same matched topics, same message-to-topics
\* mapping), and makes no remote call.
C25_NoKeyIsDeterministic ==
    (ev.op = "classified" /\ NoApiKey) =>
        /\ ev.how = "local"
        /\ ev.posts.answer = NoAnswer
        /\ ev.posts.result.relevant_posts
              = FallbackAnalysis(args.topics, args.posts).relevant_posts
        /\ ev.posts.result.relevant_topics
              = FallbackAnalysis(args.topics, args.posts).relevant_topics
        /\ ev.posts.result.post_topics
              = FallbackAnalysis(args.topics, args.posts).post_topics

\* An analyzer whose llm_config has an empty api_key classified two posts, of
\* which the substring strategy finds one relevant to two topics.
C25_Witness ==
    /\ ev.op = "classified" /\ ev.how = "local"
    /\ args.llm.configured /\ args.llm.api_key = ""
    /\ Len(args.posts) = 2 /\ Len(args.topics) = 2
    /\ Len(ev.posts.result.relevant_posts) = 1
    /\ Cardinality(ev.posts.result.relevant_topics) = 2

\* The ways a classification call fails, read off the answer alone: the API
\* raised; the answer has no content or an empty text; its text holds no
\* parsable JSON object; the object it holds has no "topics" key.
NoParsableObject(t) == ~JsonMatch(t).found \/ json_loads(JsonMatch(t).text).err
CallFailed(answer) ==
    \/ answer.kind \in {"error", "nocontent"}
    \/ answer.kind = "text" /\
         \/ answer.text = <<>>
         \/ NoParsableObject(answer.text)
         \/ ~DictHas(json_loads(JsonMatch(answer.text).text).v.m, "topics")

\* C26: whenever the semantic classification call fails in any of the listed
\* ways (API-level error, response text with no parsable JSON object, empty
\* response, response object without the topics key), the result of that call
\* equals the result of the deterministic strategy on the same batch.
C26_FailedCallFallsBack ==
    (ev.op = "classified" /\ ev.how = "remote" /\ CallFailed(ev.posts.answer)) =>
        ev.posts.result = FallbackAnalysis(args.topics, args.posts)

\* C27: classifying an empty message batch, or classifying with an empty topic
\* list, returns an empty result (no relevant messages, no topics) and makes no
\* remote classifier call, whether or not an API key is configured.
C27_EmptyInputEmptyResult ==
    (ev.op = "classified" /\ (args.posts = <<>> \/ args.topics = <<>>)) =>
        /\ ev.posts.result = EmptyResult
        /\ ev.how = "local"

\* ------------------------------------------------ claims on the target user
\* A user has a role when the role is one of the names of its role string
HasRole(u, role) == role \in Range(Split(u.roles, <<>>, <<>>))
IsAdmin(u) == HasRole(u, <<"system_admin">>)
IsRegular(u) == ~u.is_bot /\ HasRole(u, <<"system_user">>)
Admins(users) == {i \in DOMAIN users : IsAdmin(users[i])}
Regulars(users) == {i \in DOMAIN users : IsRegular(users[i])}
NonBots(users) == {i \in DOMAIN users : ~users[i].is_bot}
IsFirstOf(i, which) == i \in which /\ \A j \in which : i <= j

\* C30: target-user resolution follows a strict precedence over the user listing:
\* the first user with an admin role if any exists; otherwise the first non-bot
\* user with the standard-user role; otherwise the first non-bot user; otherwise
\* the first user listed; and it fails when the listing is empty.
C30_TargetPrecedence ==
    (ev.op = "target" /\ ev.ch = "users") =>
        LET i == ev.posts[1]
        IN  IF args = <<>> THEN ev.how = "raised"
            ELSE /\ ev.how = "found"
                 /\ i \in 1..Len(args)
                 /\ IF Admins(args) # {} THEN IsFirstOf(i, Admins(args))
                    ELSE IF Regulars(args) # {} THEN IsFirstOf(i, Regulars(args))
                    ELSE IF NonBots(args) # {} THEN IsFirstOf(i, NonBots(args))
                    ELSE i = 1

\* ------------------------------------------ claims on the notification channel
\* The channels of a listing by name and by type
TownSquares(channels) == {i \in DOMAIN channels : channels[i].name = "town-square"}
Publics(channels) == {i \in DOMAIN channels : channels[i].type = "O"}

\* C31: the notification channel is the direct channel when it can be opened; on any
\* failure of that attempt (of get_me or of create_direct_channel) it is the first
\* channel named town-square, otherwise the first public channel, otherwise the
\* first channel listed; the resolution fails only when no channel is listed.
C31_ChannelFallbackChain ==
    (ev.op = "channel") =>
        LET opened == ev.ch.me = "ok" /\ ev.ch.dm = "ok"
            listed == IF ev.ch.listing = "ok" THEN args ELSE <<>>
            i == ev.posts[1]
        IN  IF opened THEN ev.how = "dm"
            ELSE IF listed = <<>> THEN ev.how = "raised"
            ELSE /\ ev.how = "fallback"
                 /\ IF TownSquares(listed) # {} THEN IsFirstOf(i, TownSquares(listed))
                    ELSE IF Publics(listed) # {} THEN IsFirstOf(i, Publics(listed))
                    ELSE i = 1

\* ------------------------------------------------------ claims on the tools
\* The tool mattermost_run_monitoring is called
RunToolCalled == ev'.op \in {"enter", "skip", "refused"} /\ ev'.how = "run_now"
\* The run that a call of the tool started ends, and the tool returns
RunNowRunEnds == \E s \in Slots : src[s] = "run_now" /\ Running(s) /\ ~Running(s)'
\* The tool returns: its call was skipped, or the run it started ends
RunToolReturns == (ev'.op = "skip" /\ ev'.how = "run_now") \/ RunNowRunEnds
SomeRun == \E s \in Slots : Running(s)

\* C32: whenever no monitor is initialized or the monitor is not enabled (its start
\* failed or it was stopped), a call of the run-monitoring tool returns success
\* false and executes no monitoring run.
C32_RunToolFailsWhenNotEnabled ==
    [][(RunToolCalled /\ ~(monitor = "up" /\ is_enabled)) =>
            (ev'.op = "refused" /\ ~ev'.reply.success)]_vars

\* C33: the status tool reports the state at the moment of the call: enabled is
\* true exactly when a recurring trigger is registered, and running is true exactly
\* while a monitoring run, started by the trigger or by run_now, is executing.
C33_StatusIsTrue ==
    (ev.op = "status") =>
        /\ ev.reply.enabled <=> Registered # {}
        /\ ev.reply.running <=> SomeRun

\* The status tool answered while a run started by run_now was executing on a
\* monitor that is not enabled.
C33_Witness ==
    /\ ev.op = "status" /\ ev.reply.running /\ ~ev.reply.enabled
    /\ \E s \in Slots : src[s] = "run_now" /\ pc[s] = "notifying"

\* C37: the flag _task_running is true exactly while a run is executing: every run
\* that ends, by returning, with an error or by cancellation, leaves it false, and
\* an invocation of _run_callback made while no run is executing is not skipped.
C37_FlagExactlyWhileRunning ==
    [][/\ task_running <=> SomeRun
       /\ task_running' <=> SomeRun'
       /\ \A s \in Slots :
            (Running(s) /\ ~Running(s)') =>
                (~task_running' /\ ended' \in {"returned", "raised", "cancelled"})
       /\ (ev'.op \in {"enter", "skip"} /\ ~SomeRun) => ev'.op = "enter"]_vars

\* The first run of the process is over and the trigger fired again: the
\* invocation was entered.
C37_Witness ==
    /\ firstRun = FirstRunOver
    /\ ev.op = "enter" /\ ev.how = "trigger"
    /\ task_running

\* C38: the run-monitoring tool returns success true, with the message that the run
\* completed, only if its call executed a monitoring run: not when its call of
\* _run_callback was skipped because a run was in progress.
C38_SuccessOnlyAfterARun ==
    [][(RunToolReturns /\ run_monitoring_reply(ended').success) => RunNowRunEnds]_vars

\* ------------------------------------------------ claims on the run as a whole
\* The position of a channel id in config.channels
ChannelIndex(c) == CHOOSE k \in 1..Len(Channels) : ChannelId(Channels[k]) = c
\* The results a run holds are in the order of config.channels
InChannelOrder(rs) ==
    \A i, j \in 1..Len(rs) : i < j => ChannelIndex(rs[i].ch) < ChannelIndex(rs[j].ch)
\* The invocation of coroutine s ends
RunEnds(s) == Running(s) /\ ~Running(s)'

\* C34: within a run the analysis of every configured channel, with its marking and
\* its save, is over before the first notification; then, in the order of the
\* configured channels, exactly one post is attempted for each non-empty result.
C34_AnalysisBeforeNotification ==
    [][\A s \in Slots :
        /\ (pc'[s] = "notifying") =>
              (idx'[s] = Len(Channels) /\ results'[s] # <<>> /\ InChannelOrder(results'[s]))
        /\ (pc[s] = "notifying") => pc'[s] \in {"notifying", "idle"}
        /\ (pc[s] = "notifying" /\ (RunEnds(s) \/ results'[s] # results[s])) =>
              /\ NotifyStep(s)
              /\ ev'.how \in {"ok", "failed"}
              /\ ev'.ch = Head(results[s]).ch /\ ev'.posts = Head(results[s]).posts
              /\ IF Len(results[s]) = 1 THEN RunEnds(s)
                 ELSE results'[s] = Tail(results[s]) /\ pc'[s] = "notifying"
        /\ (RunEnds(s) /\ pc[s] # "notifying") => results[s] = <<>>]_vars

\* C35: an analyze_channel call that returns early (the channel is not listed, the
\* channel listing or the post listing failed, or every fetched post is processed
\* already) leaves the processed posts in memory and the state file as they were
\* and calls neither the classifier nor save_state; these are called only with a
\* batch that holds an unprocessed post.
C35_EarlyExitChangesNothing ==
    [][\A s \in Slots :
        /\ EarlyStep(s) =>
              /\ processed' = processed /\ file' = file
              /\ everClassified' = everClassified /\ persisted' = persisted
              /\ ev'.how \in {"absent", "error", "nothing"}
        /\ (pc[s] = "fetching" /\ pc'[s] = "enriching") => batch'[s] # <<>>
        /\ AnalyzeStep(s) =>
              /\ batch[s] # <<>>
              /\ Range(batch[s]) \cap ProcessedIds(processed, ChannelOf(s)) = {}]_vars

\* Every post the listing of the first channel returned was processed already and
\* the call returned early, in a process that had saved marks of that channel.
C35_Witness ==
    /\ ev.op = "early" /\ ev.how = "nothing" /\ ev.ch = "c1"
    /\ ProcessedIds(processed, "c1") # {}
    /\ file.exists

\* C39: whenever a run marks as processed a post the classifier judged relevant, the
\* same run attempts to post a notification that counts that post: the result is
\* queued, a run ends only with its queue empty, and every result taken from the
\* queue is posted.
C39_NoRelevantPostConsumedSilently ==
    [][\A s \in Slots :
        /\ (AnalyzeStep(s) /\ ev'.posts # <<>>) =>
              /\ Range(ev'.posts) \subseteq ProcessedIds(processed', ChannelOf(s))
              /\ Running(s)'
              /\ results'[s] = Append(results[s], [ch |-> ChannelOf(s), posts |-> ev'.posts])
        /\ (Running(s) /\ results'[s] # results[s] /\ ~AnalyzeStep(s)) =>
              /\ NotifyStep(s)
              /\ ev'.how \in {"ok", "failed"}
              /\ ev'.posts = Head(results[s]).posts
              /\ results'[s] = Tail(results[s])]_vars

\* ------------------------------------------------ claims on the enrichment
\* How often get_user_profile was called for author u
LookupsOf(lookups, u) == Cardinality({i \in DOMAIN lookups : lookups[i] = u})

\* C36: while one batch is enriched get_user_profile is called at most once per
\* distinct author, also for an author whose lookup failed; every post of the batch
\* is in the enriched list, in order, and a post is without user_info only if a
\* lookup of its author failed.
C36_OneLookupPerAuthor ==
    (ev.op = "enriched") =>
        /\ \A u \in Authors : LookupsOf(ev.posts.lookups, u) <= 1
        /\ Len(ev.posts.enriched) = Len(args.posts)
        /\ \A i \in DOMAIN args.posts :
              /\ ev.posts.enriched[i].user_id = args.posts[i]
              /\ ~ev.posts.enriched[i].user_info =>
                    \E j \in 1..i : args.posts[j] = args.posts[i] /\ args.outcomes[j] = "error"

\* ----------------------------------------- claims on the result of a classifier
\* C40: whichever strategy produced it and whatever the language model answered,
\* the relevant posts of a result are a subsequence of the batch, every matched
\* topic is a configured topic, and every matched topic is listed for at least one
\* of the relevant posts.
C40_ResultIsWellFormed ==
    (ev.op \in {"classified", "fallback"}) =>
        LET res == ev.posts.result
        IN  /\ res.relevant_posts =
                  SelectSeq(args.posts, LAMBDA p : p \in Range(res.relevant_posts))
            /\ res.relevant_topics \subseteq Range(args.topics)
            /\ \A t \in res.relevant_topics :
                  \E p \in Range(res.relevant_posts) :
                      t \in Range(DictGet(res.post_topics, p.id))
====
